---- MODULE Spec2Model ----
(***************************************************************************)
(* Extraction orchestration of the islamic-cartography pipeline.           *)
(*                                                                         *)
(*   Spec      scripts/02_test_extraction.py: one warm Docling worker, a   *)
(*             fresh Vision process per document, the Vision gate, the     *)
(*             Tesseract fallback and the resumable results file.          *)
(*   SpecCrash the same script without Vision and Tesseract, killed at     *)
(*             any point and started again over the files it left.         *)
(*   SpecPool  scripts/05_extract_embedded.py: the pool of Docling         *)
(*             workers, the result-collection loop and the results log.    *)
(*   SpecGate  the Vision gate of 02_test_extraction.py on its own, over   *)
(*             page texts of both engines drawn from small sets.           *)
(*   SpecPoolLive  SpecPool under the scheduling its collection loop can   *)
(*             count on, for what the loop eventually does.                *)
(*   SpecPoolReturning  SpecPool with workers that take the next message   *)
(*             when idle and return from every extraction.                 *)
(*   SpecSample  the Vision child process: the pages it sends to the API.  *)
(*   SpecLock  the lock file of 05_extract_embedded.py, taken and released *)
(*             by several invocations of the script.                       *)
(*   SpecPipe  one Vision or Tesseract child of 02_test_extraction.py, the *)
(*             pipe of its private queue and the supervisor's wait.        *)
(*   SpecSpread  _spread_indices of vision_extractor.py over small inputs. *)
(*                                                                         *)
(* Python's None and '' are both falsy everywhere these scripts test a     *)
(* text or an error, so both are the empty sequence / the empty string.    *)
(***************************************************************************)
EXTENDS Integers, Sequences, FiniteSets, TLC

\* ---------------------------------------------------------------- bounds
NDocs   == 2        \* documents selected into `samples` / `candidates`
MaxRuns == 2        \* invocations of main() over the same files
timeout == 1        \* args.timeout, in polls of one second

MaxWorkers == 2     \* largest --workers tried

MaxPages == 2       \* pages of a document at the Vision gate

Keys == 1..NDocs    \* document keys; samples[i] = i

\* ------------------------------------------------- extraction results
\* An extractor result: text, page_texts {page: text}, layout_elements
\* {page: text of the page's elements}, error ("" = None), and `of`, the
\* document whose file the engine read.
NoPages == <<>>

Result(text, pages, err, k) ==
    [text |-> text, page_texts |-> pages, layout_elements |-> NoPages,
     error |-> err, of |-> k]

\* DoclingExtractor.extract fills layout_elements from the same items of
\* the same pages as page_texts.
DoclingResult(text, pages, err, k) ==
    [Result(text, pages, err, k) EXCEPT !.layout_elements = pages]

None == Result(<<>>, NoPages, "None", 0)

_timeout_error(k) == Result(<<>>, NoPages, "timeout", k)

_exc_error(msg, k) == Result(<<>>, NoPages, msg, k)

\* What DoclingExtractor.extract can return for a file: page_texts has
\* 1-based keys and holds only non-empty texts. Page maps of several
\* pages are drawn for the gate on its own, see GateDoclingInputs.
DoclingOutputs(k) ==
    { DoclingResult(<<"a">>, (1 :> <<"a">>), "", k),
      DoclingResult(<<"a">>, NoPages, "", k),
      DoclingResult(<<>>, NoPages, "", k),
      DoclingResult(<<>>, NoPages, "error", k) }

\* What VisionExtractor.extract can return: page_texts has 0-based keys,
\* a page the API found no text on is ''.
VisionOutputs(k) ==
    { Result(<<"a">>, (0 :> <<"a">>), "", k),
      Result(<<"b">>, (0 :> <<"b">>), "", k),
      Result(<<"a", "b">>, (0 :> <<"a">>) @@ (1 :> <<"b">>), "", k),
      Result(<<"*">>, (0 :> <<"*">>), "", k),
      Result(<<>>, NoPages, "", k),
      Result(<<>>, NoPages, "error", k) }

TesseractOutputs(k) ==
    { Result(<<"a">>, NoPages, "", k),
      Result(<<>>, NoPages, "error", k) }

\* ------------------------------------------------------- similarity
\* strip_markdown then normalize_arabic_text: emphasis marks and table
\* pipes go, whitespace runs collapse and the ends are stripped.
RECURSIVE CollapseSpaces(_)
CollapseSpaces(s) ==
    IF Len(s) < 2 THEN s
    ELSE IF s[1] = " " /\ s[2] = " " THEN CollapseSpaces(Tail(s))
    ELSE <<s[1]>> \o CollapseSpaces(Tail(s))

RECURSIVE Strip(_)
Strip(s) ==
    IF s = <<>> THEN s
    ELSE IF s[1] = " " THEN Strip(Tail(s))
    ELSE IF s[Len(s)] = " " THEN Strip(SubSeq(s, 1, Len(s) - 1))
    ELSE s

strip_markdown(s) ==
    Strip(CollapseSpaces(
        [i \in 1..Len(SelectSeq(s, LAMBDA c : c \notin {"*", "_"})) |->
            LET c == SelectSeq(s, LAMBDA d : d \notin {"*", "_"})[i]
            IN  IF c = "|" THEN " " ELSE c]))

normalize_arabic_text(s) == Strip(CollapseSpaces(s))

\* Insert/delete distance, the distance Levenshtein.ratio is built on.
RECURSIVE InDel(_, _)
InDel(s, t) ==
    IF s = <<>> THEN Len(t)
    ELSE IF t = <<>> THEN Len(s)
    ELSE IF s[1] = t[1] THEN InDel(Tail(s), Tail(t))
    ELSE LET x == 1 + InDel(Tail(s), t)
             y == 1 + InDel(s, Tail(t))
         IN  IF x < y THEN x ELSE y

\* compute_similarity as a fraction <<numerator, denominator>>.
compute_similarity(text1, text2) ==
    LET norm1 == normalize_arabic_text(strip_markdown(text1))
        norm2 == normalize_arabic_text(strip_markdown(text2))
        lensum == Len(norm1) + Len(norm2)
    IN  IF norm1 = <<>> \/ norm2 = <<>> THEN <<0, 1>>
        ELSE <<lensum - InDel(norm1, norm2), lensum>>

\* Variant that looks Docling's page up under Vision's own index.
DoclingKeySame(i) == i

\* "docling_pages.get(idx + 1, '')": the Docling key for Vision index idx.
DoclingKey(i) == i + 1

\* The page pairs vision_gate_score scores: Vision index idx against
\* Docling page idx + 1, both texts non-empty.
ScoredPages(docling_result, vision_result) ==
    { i \in DOMAIN vision_result.page_texts :
        /\ vision_result.page_texts[i] # <<>>
        /\ DoclingKey(i) \in DOMAIN docling_result.page_texts
        /\ docling_result.page_texts[DoclingKey(i)] # <<>> }

RECURSIVE SumFrac(_, _, _)
SumFrac(S, d, v) ==
    IF S = {} THEN <<0, 1>>
    ELSE LET i == CHOOSE j \in S : TRUE
             f == compute_similarity(v.page_texts[i], d.page_texts[DoclingKey(i)])
             r == SumFrac(S \ {i}, d, v)
         IN  <<f[1] * r[2] + r[1] * f[2], f[2] * r[2]>>

\* vision_gate_score as a fraction: the mean over the scored pairs, 0.0
\* when there is none.
vision_gate_score(docling_result, vision_result) ==
    LET S == ScoredPages(docling_result, vision_result)
        s == SumFrac(S, docling_result, vision_result)
    IN  IF S = {} THEN <<0, 1>> ELSE <<s[1], s[2] * Cardinality(S)>>

\* Variant with a strict comparison.
GateAcceptsStrict(score, thr) == score[1] * thr[2] > thr[1] * score[2]

\* gate_score >= args.threshold, the threshold a fraction as well.
GateAccepts(score, thr) == score[1] * thr[2] >= thr[1] * score[2]

\* VISION_THRESHOLD = 0.5, the default of --threshold.
VISION_THRESHOLD == <<1, 2>>

\* ----------------------------------------------------------- memory
\* MEM_ABORT_GB = 4.0
MEM_ABORT_GB == 4

\* Resident memory of a process, in GB: at the ceiling or above it.
MemLevels == {MEM_ABORT_GB, MEM_ABORT_GB + 1}

\* _mem_gb(): psutil.Process() without a pid is the calling process, so
\* the figure is the memory of the process main runs in.
_mem_gb(own_rss, child_rss) == own_rss

\* ------------------------------------------------------------ files
\* A file is absent or holds a sequence of tokens.  json.dump of the
\* results list writes "[", the entries, "]"; json.load accepts only a
\* complete array.
Absent == [exists |-> FALSE, data |-> <<>>]

File(data) == [exists |-> TRUE, data |-> data]

OpenBracket == [item_key |-> 0, tok |-> "["]

CloseBracket == [item_key |-> 0, tok |-> "]"]

Serialize(rs) == <<OpenBracket>> \o rs \o <<CloseBracket>>

WellFormed(data) ==
    /\ Len(data) >= 2
    /\ data[1] = OpenBracket
    /\ data[Len(data)] = CloseBracket
    /\ \A i \in 2..(Len(data) - 1) : data[i].tok = "entry"

Parse(data) == SubSeq(data, 2, Len(data) - 1)

KeysOf(rs) == { rs[i].item_key : i \in 1..Len(rs) }

\* save_witness_texts: text and page_texts are popped, a non-empty text
\* is written to a file and its path kept; every other key stays.
Slim(r) ==
    [error |-> r.error, text_path |-> r.text # <<>>,
     layout_elements |-> r.layout_elements]

SlimWitnesses(w) ==
    [docling |-> Slim(w.docling), vision |-> Slim(w.vision),
     tesseract |-> Slim(w.tesseract)]

Engines == {"docling", "vision", "tesseract"}

Entry(key, w, used) ==
    [item_key |-> key, tok |-> "entry", witnesses |-> SlimWitnesses(w),
     used_tesseract |-> used]

NoWitnesses == [docling |-> None, vision |-> None, tesseract |-> None]

\* An entry of the results file none of whose engines produced a text:
\* each one errored, timed out or was not run.
Failed(e) == \A n \in Engines : ~e.witnesses[n].text_path

\* Variant that keeps a document without any text out of the results.
RecordedUnlessFailed(rs, e) == IF Failed(e) THEN rs ELSE Append(rs, e)

\* "results.append({...})", whatever the witnesses hold.
Recorded(rs, e) == Append(rs, e)

\* The two paths save_results touches.
Paths == {"output", "tmp"}

output_path == "output"

\* Variant that writes in place, without a temporary file.
with_suffix_in_place(p) == p

\* output_path.with_suffix('.tmp.json')
with_suffix(p) == "tmp"

\* ======================================================================
\* scripts/02_test_extraction.py
\* ======================================================================
VARIABLES
    pc,                 \* where main() is
    run,                \* number of the current invocation of main()
    vision_available,   \* VisionExtractor() could be constructed
    tesseract_available,\* TesseractExtractor() could be constructed
    idx,                \* position of the document loop in `samples`
    doc_id,             \* id of the next task for the Docling worker
    docling_proc,       \* the persistent worker process
    docling_task,       \* the task the worker is extracting
    docling_task_q,
    docling_result_q,
    docling_done,
    docling_result,
    vision_done,
    vision_result,
    vision_proc,        \* the Vision process of the current document
    vision_q,
    elapsed,            \* seconds since `start`, saturating at timeout
    witnesses,
    used_tesseract,
    tess_proc,          \* the Tesseract process of the current document
    tess_q,
    tess_rss,           \* resident memory of the Tesseract process, in GB
    results,            \* the in-memory results list
    done_keys,
    files,              \* args.output and its .tmp.json sibling on disk
    stored,             \* doc_id -> assignments made to docling_result
    dispatched,         \* doc_ids put on docling_task_q in this run
    written,            \* text files written in this run
    committed           \* `results` as of the last completed rewrite

\* ---- the Vision child process, _vision_worker, seen from inside (the
\* actions are further down)
VARIABLES
    vx_pc,          \* where the child is
    vx_total,       \* len(all_images), the pages of the file
    vx_n_pages,     \* n_pages, args.vision_pages as the dispatcher passes it
    vx_indices,     \* `indices`, the pages sent to the API
    vx_page_texts   \* page_texts of the result

svars == <<vx_pc, vx_total, vx_n_pages, vx_indices, vx_page_texts>>

\* ---- the lock file of 05_extract_embedded.py, over several invocations
\* (the actions are further down)
VARIABLES
    lock_pc,        \* where each invocation is
    lock_path,      \* the file the name data/.extract.lock leads to, 0 = none
    lock_fh,        \* the file each invocation has open, 0 = none
    flock,          \* per file, the invocation holding LOCK_EX, 0 = nobody
    lock_files      \* files created under the name so far

lvars == <<lock_pc, lock_path, lock_fh, flock, lock_files>>

\* ---- a child process with its private queue and the supervisor that
\* waits for it (the actions are further down)
VARIABLES
    tp_kind,        \* "vision" (run_phase1_parallel) or "tesseract"
    tp_pc,          \* the supervisor: "idle", "wait" or "returned"
    tp_child,       \* the child process
    tp_size,        \* size of the pickled result, in pipe blocks
    tp_buffer,      \* blocks the queue's feeder thread has still to write
    tp_pipe,        \* blocks in the pipe, written and not yet read
    tp_elapsed,     \* seconds since the child was started
    tp_put_at,      \* tp_elapsed when the child put its result, -1 before
    tp_return       \* what the supervisor returned

tvars == <<tp_kind, tp_pc, tp_child, tp_size, tp_buffer, tp_pipe,
           tp_elapsed, tp_put_at, tp_return>>

\* ---- _spread_indices of vision_extractor.py, called on its own (the
\* action is further down)
VARIABLES
    sp_pc,          \* "call", "returned" or "raised"
    sp_total,       \* total
    sp_n,           \* n
    sp_indices      \* the list returned

rvars == <<sp_pc, sp_total, sp_n, sp_indices>>

xvars == <<svars, lvars, tvars, rvars>>

mainvars == <<pc, run, vision_available, tesseract_available, idx, doc_id,
           docling_proc, docling_task, docling_task_q, docling_result_q,
           docling_done, docling_result, vision_done, vision_result,
           vision_proc, vision_q, elapsed, witnesses, used_tesseract,
           tess_proc, tess_q, tess_rss, results, done_keys, files, stored, dispatched, written, committed>>

\* What an action of 05_extract_embedded.py leaves alone.
gvars == <<mainvars, xvars>>

\* ---- scripts/05_extract_embedded.py (the actions are further down)
VARIABLES
    ppc,            \* where main() is
    prun,           \* number of the current invocation of main()
    force,          \* args.force
    n_workers,
    candidates,     \* the keys to extract, in inventory order
    done,           \* keys with an 'ok' entry in the prior log
    log_results,    \* `results`, the in-memory results log
    workers,        \* worker id -> state of that worker process
    worker_task,    \* worker id -> the task it is extracting
    wid,            \* the worker the start-up loop is at
    task_q,
    result_q,
    start_times,    \* key -> seconds since its 'started' was received, -1 = unset
    completed,
    saving,         \* key -> stage of its background save
    save_lock,      \* holder of _save_lock: "free", "main" or "save"
    log_files,      \* res_path and its .tmp.json sibling on disk
    enqueued,       \* keys put on task_q in this run
    appended,       \* keys an entry was appended for in this run
    doc_written     \* keys save_document wrote files for in this run

poolvars == <<ppc, prun, force, n_workers, candidates, done, log_results,
           workers, worker_task, wid, task_q, result_q, start_times,
           completed, saving, save_lock, log_files, enqueued, appended,
           doc_written>>

\* What an action of 02_test_extraction.py leaves alone.
pvars == <<poolvars, xvars>>

vars == <<gvars, pvars>>

Shutdown == [doc_id |-> -1, path |-> 0]         \* the None sentinel

Task(id, k) == [doc_id |-> id, path |-> k]

Envelope(status, rid, value) == [status |-> status, rid |-> rid, value |-> value]

NoTask == Task(-1, 0)

PoolTask(id, k) == [doc_id |-> id, key |-> k]

NoPoolTask == PoolTask(-1, 0)

PoolShutdown == NoPoolTask                      \* the None sentinel

\* Variant whose messages do not say which task they are about.
PoolMsgAnonymous(status, w, id, k) ==
    [status |-> status, wid |-> w, doc_id |-> -1, key |-> 0]

PoolMsg(status, w, id, k) == [status |-> status, wid |-> w, doc_id |-> id, key |-> k]

PoolEntry(k, status) == [key |-> k, tok |-> "entry", status |-> status]

PoolKeysOf(rs) == { rs[i].key : i \in 1..Len(rs) }

\* "done = {r['key'] for r in prior if r.get('status') == 'ok'}"
OkKeys(rs) == { rs[i].key : i \in { j \in 1..Len(rs) : rs[j].status = "ok" } }

\* Variant that never finds the key in the results.
AlreadyNever(rs, k) == FALSE

\* "already = any(r['key'] == key for r in results)"
Already(rs, k) == \E i \in 1..Len(rs) : rs[i].key = k

\* Variant that never filters on the done-set.
FilterNothing(all, dn, f) == all

\* "candidates = [r for r in candidates if r['key'] not in done]" unless
\* --force; `all` is the inventory in order.
Filter(all, dn, f) ==
    IF f THEN all ELSE SelectSeq(all, LAMBDA k : k \notin dn)

\* Variant that leaves out the sentinel of the worker being awaited.
AbortSentinelsShort(started) == [i \in 1..(started - 1) |-> PoolShutdown]

\* "for _ in workers: task_q.put(None)" when the start-up is abandoned.
AbortSentinels(started) == [i \in 1..started |-> PoolShutdown]

Min(a, b) == IF a < b THEN a ELSE b

\* The state main() starts from: everything but the files on disk.
Fresh ==
    /\ idx = 1
    /\ doc_id = 0
    /\ docling_proc = "none"
    /\ docling_task = NoTask
    /\ docling_task_q = <<>>
    /\ docling_result_q = <<>>
    /\ docling_done = FALSE
    /\ docling_result = None
    /\ vision_done = FALSE
    /\ vision_result = None
    /\ vision_proc = "none"
    /\ vision_q = <<>>
    /\ elapsed = 0
    /\ witnesses = NoWitnesses
    /\ used_tesseract = FALSE
    /\ tess_proc = "none"
    /\ tess_q = <<>>
    /\ tess_rss = 0
    /\ results = <<>>
    /\ done_keys = {}
    /\ stored = [i \in 0..NDocs |-> 0]
    /\ dispatched = <<>>
    /\ written = {}

\* 05_extract_embedded.py not running.
PoolOff ==
    /\ force = FALSE
    /\ n_workers = 0
    /\ candidates = <<>>
    /\ done = {}
    /\ log_results = <<>>
    /\ workers = [w \in 0..(MaxWorkers - 1) |-> "none"]
    /\ worker_task = [w \in 0..(MaxWorkers - 1) |-> NoPoolTask]
    /\ wid = 0
    /\ task_q = <<>>
    /\ result_q = <<>>
    /\ start_times = [k \in Keys |-> -1]
    /\ completed = 0
    /\ saving = [k \in Keys |-> "none"]
    /\ save_lock = "free"
    /\ log_files = [p \in Paths |-> Absent]
    /\ enqueued = {}
    /\ appended = {}
    /\ doc_written = {}

\* Nobody runs the lock-file part on its own.
LockOff ==
    /\ lock_pc = <<>>
    /\ lock_path = 0
    /\ lock_fh = <<>>
    /\ flock = <<>>
    /\ lock_files = 0

\* _spread_indices is not called on its own.
SpreadOff ==
    /\ sp_pc = "off"
    /\ sp_total = 0
    /\ sp_n = 0
    /\ sp_indices = <<>>

\* No child process is run on its own.
PipeOff ==
    /\ SpreadOff
    /\ tp_kind = "none"
    /\ tp_pc = "off"
    /\ tp_child = "none"
    /\ tp_size = 0
    /\ tp_buffer = 0
    /\ tp_pipe = 0
    /\ tp_elapsed = 0
    /\ tp_put_at = -1
    /\ tp_return = "none"

\* No Vision child is being looked into.
SampleOff ==
    /\ vx_pc = "off"
    /\ vx_total = 0
    /\ vx_n_pages = 0
    /\ vx_indices = {}
    /\ vx_page_texts = <<>>
    /\ LockOff
    /\ PipeOff

Init ==
    /\ SampleOff
    /\ Fresh
    /\ pc = "start"
    /\ run = 1
    /\ vision_available \in BOOLEAN
    /\ tesseract_available \in BOOLEAN
    /\ files = [p \in Paths |-> Absent]
    /\ committed = <<>>
    /\ PoolOff
    /\ ppc = "off"
    /\ prun = 0

config == <<vision_available, tesseract_available>>

disk == <<files, committed>>

ghosts == <<stored, dispatched, written>>

phase1 == <<docling_done, docling_result, vision_done, vision_result>>

vision == <<vision_proc, vision_q>>

tess == <<tess_proc, tess_q, tess_rss>>

worker == <<docling_proc, docling_task>>

ledger == <<results, done_keys>>

\* ------------------------------------------------ the Docling worker
\* start_docling_worker: the queues are made and the process is started.
StartDoclingWorker ==
    /\ pc = "start"
    /\ pc' = "startup"
    /\ docling_proc' = "init"
    /\ docling_task_q' = <<>>
    /\ docling_result_q' = <<>>
    /\ UNCHANGED <<run, config, idx, doc_id, docling_task, phase1, vision,
                   elapsed, witnesses, used_tesseract, tess, ledger, disk,
                   ghosts>>
    /\ UNCHANGED pvars

\* _docling_persistent_worker, initialisation: 'ready', or 'init_err'
\* and the process returns.
WorkerInit ==
    /\ docling_proc = "init"
    /\ \E ok \in BOOLEAN :
        IF ok
        THEN /\ docling_result_q' =
                    Append(docling_result_q, Envelope("ready", -1, None))
             /\ docling_proc' = "idle"
        ELSE /\ docling_result_q' =
                    Append(docling_result_q, Envelope("init_err", -1, None))
             /\ docling_proc' = "exited"
    /\ UNCHANGED <<pc, run, config, idx, doc_id, docling_task,
                   docling_task_q, phase1, vision, elapsed, witnesses,
                   used_tesseract, tess, ledger, disk, ghosts>>
    /\ UNCHANGED pvars

\* start_docling_worker, the wait: 'ready' returns the handle, anything
\* else terminates the process and raises, and main returns 1.
\* Variant that hands back the worker whatever it reported.
IsReadyAny(msg) == TRUE

\* start_docling_worker: status == 'ready'.
IsReady(msg) == msg.status = "ready"

StartupReceive ==
    /\ pc = "startup"
    /\ docling_result_q # <<>>
    /\ docling_result_q' = Tail(docling_result_q)
    /\ IF IsReady(Head(docling_result_q))
       THEN pc' = "resume" /\ UNCHANGED docling_proc
       ELSE pc' = "done" /\ docling_proc' = "exited"
    /\ UNCHANGED <<run, config, idx, doc_id, docling_task, docling_task_q,
                   phase1, vision, elapsed, witnesses, used_tesseract, tess,
                   ledger, disk, ghosts>>
    /\ UNCHANGED pvars

\* start_docling_worker, the deadline passes with nothing received.
StartupTimeout ==
    /\ pc = "startup"
    /\ docling_result_q = <<>>
    /\ pc' = "done"
    /\ docling_proc' = "exited"
    /\ UNCHANGED <<run, config, idx, doc_id, docling_task, docling_task_q,
                   docling_result_q, phase1, vision, elapsed, witnesses,
                   used_tesseract, tess, ledger, disk, ghosts>>
    /\ UNCHANGED pvars

\* The worker takes a message: None ends its loop.
WorkerTake ==
    /\ docling_proc = "idle"
    /\ docling_task_q # <<>>
    /\ docling_task_q' = Tail(docling_task_q)
    /\ IF Head(docling_task_q) = Shutdown
       THEN docling_proc' = "exited" /\ UNCHANGED docling_task
       ELSE docling_proc' = "busy" /\ docling_task' = Head(docling_task_q)
    /\ UNCHANGED <<pc, run, config, idx, doc_id, docling_result_q, phase1,
                   vision, elapsed, witnesses, used_tesseract, tess, ledger,
                   disk, ghosts>>
    /\ UNCHANGED pvars

\* The worker finishes an extraction: ('ok', doc_id, result), or
\* ('err', doc_id, str(e)) when extract raised.
WorkerFinish ==
    /\ docling_proc = "busy"
    /\ \E e \in { Envelope("ok", docling_task.doc_id, r) :
                    r \in DoclingOutputs(docling_task.path) }
            \cup { Envelope("err", docling_task.doc_id,
                            Result(<<>>, NoPages, "error", docling_task.path)) } :
        docling_result_q' = Append(docling_result_q, e)
    /\ docling_proc' = "idle"
    /\ docling_task' = NoTask
    /\ UNCHANGED <<pc, run, config, idx, doc_id, docling_task_q, phase1,
                   vision, elapsed, witnesses, used_tesseract, tess, ledger,
                   disk, ghosts>>
    /\ UNCHANGED pvars

\* Time passes while main polls.
Tick ==
    /\ pc \in {"phase1", "tess"}
    /\ elapsed < timeout
    /\ elapsed' = elapsed + 1
    /\ UNCHANGED <<pc, run, config, idx, doc_id, worker, docling_task_q,
                   docling_result_q, phase1, vision, witnesses,
                   used_tesseract, tess, ledger, disk, ghosts>>
    /\ UNCHANGED pvars
\* ------------------------------------------------------------ resume

\* Variant that prefers the temporary file of an interrupted rewrite.
resume_path_newest == IF files["tmp"].exists THEN "tmp" ELSE output_path

\* The file json.load reads at start-up.
resume_path == output_path

\* main: "Resume from existing results".  json.load raises on anything
\* but a complete document, which ends the run (the finally clause is not
\* reached: the try block starts later).
LoadResults ==
    /\ pc = "resume"
    /\ IF ~files[resume_path].exists
       THEN /\ results' = <<>>
            /\ done_keys' = {}
            /\ pc' = "loop"
       ELSE IF WellFormed(files[resume_path].data)
       THEN /\ results' = Parse(files[resume_path].data)
            /\ done_keys' = KeysOf(Parse(files[resume_path].data))
            /\ pc' = "loop"
       ELSE /\ pc' = "done"
            /\ UNCHANGED ledger
    /\ idx' = 1
    /\ doc_id' = 0
    /\ UNCHANGED <<run, config, worker, docling_task_q, docling_result_q,
                   phase1, vision, elapsed, witnesses, used_tesseract, tess,
                   disk, ghosts>>
    /\ UNCHANGED pvars

\* main: a document whose key is in done_keys is skipped.
SkipDoc ==
    /\ pc = "loop"
    /\ idx <= NDocs
    /\ idx \in done_keys
    /\ idx' = idx + 1
    /\ UNCHANGED <<pc, run, config, doc_id, worker, docling_task_q,
                   docling_result_q, phase1, vision, elapsed, witnesses,
                   used_tesseract, tess, ledger, disk, ghosts>>
    /\ UNCHANGED pvars

\* ----------------------------------------------------------- phase 1
\* run_phase1_parallel, up to the polling loop: the task goes to the warm
\* worker and Vision is started in a fresh process.
Dispatch ==
    /\ pc = "loop"
    /\ idx <= NDocs
    /\ idx \notin done_keys
    /\ docling_task_q' = Append(docling_task_q, Task(doc_id, idx))
    /\ dispatched' = Append(dispatched, doc_id)
    /\ docling_done' = FALSE
    /\ docling_result' = None
    /\ vision_done' = ~vision_available
    /\ vision_result' = None
    /\ vision_proc' = IF vision_available THEN "alive" ELSE "none"
    /\ vision_q' = <<>>
    /\ elapsed' = 0
    /\ witnesses' = NoWitnesses
    /\ used_tesseract' = FALSE
    /\ pc' = "phase1"
    /\ UNCHANGED <<run, config, idx, doc_id, worker, docling_result_q, tess,
                   ledger, disk, stored, written>>
    /\ UNCHANGED pvars

\* _vision_worker: ('ok', result), or ('err', str(e)), then the process exits.
VisionFinish ==
    /\ vision_proc = "alive"
    /\ \E e \in { Envelope("ok", -1, r) : r \in VisionOutputs(idx) }
            \cup { Envelope("err", -1, Result(<<>>, NoPages, "error", idx)) } :
        vision_q' = <<e>>
    /\ vision_proc' = "exited"
    /\ UNCHANGED <<pc, run, config, idx, doc_id, worker, docling_task_q,
                   docling_result_q, phase1, elapsed, witnesses,
                   used_tesseract, tess, ledger, disk, ghosts>>
    /\ UNCHANGED pvars

\* The Vision process dies before it has put anything on its queue.
VisionDies ==
    /\ vision_proc = "alive"
    /\ vision_proc' = "exited"
    /\ UNCHANGED <<pc, run, config, idx, doc_id, worker, docling_task_q,
                   docling_result_q, phase1, vision_q, elapsed, witnesses,
                   used_tesseract, tess, ledger, disk, ghosts>>
    /\ UNCHANGED pvars

\* Variant without the id check: whatever is on the queue is taken.
IsCurrentAny(rid, id) == TRUE

\* `rid == doc_id`: the envelope is the current document's.
IsCurrent(rid, id) == rid = id

\* `status, value` of a child's message as a result dict.
Unwrap(e) == IF e.status = "ok" THEN e.value ELSE _exc_error(e.value.error, e.value.of)

\* The drain of docling_result_q: envelopes are taken until the queue is
\* empty or one carries the current doc_id; the others are dropped.
RECURSIVE Drain(_, _)
Drain(q, id) ==
    IF q = <<>> THEN [rest |-> q, done |-> FALSE, result |-> None]
    ELSE IF IsCurrent(Head(q).rid, id)
         THEN [rest |-> Tail(q), done |-> TRUE, result |-> Unwrap(Head(q))]
         ELSE Drain(Tail(q), id)

\* Variant that does not look at docling_done when the deadline passes.
DoclingTimesOutAlways(timed_out, is_done) == timed_out

\* "if timed_out: if not docling_done"
DoclingTimesOut(timed_out, is_done) == timed_out /\ ~is_done

\* `doc_id += 1` after run_phase1_parallel has returned.
NextDocId(id) == id + 1

\* Variant that sends terminate and never escalates to kill.
CancelGraceful(proc, obeys) == IF obeys THEN "exited" ELSE proc

\* "terminate(); join(3); if is_alive(): kill(); join()": the state of a
\* child process after it, whether or not it obeys the terminate.
Cancel(proc, obeys) == "exited"

\* Variant that terminates the warm worker when Docling times out.
WorkerAfterTimeoutTerminated(proc) == "exited"

\* "if not docling_done": the timeout branch records the synthetic
\* result and leaves the worker process alone.
WorkerAfterTimeout(proc) == proc

\* One iteration of the polling loop of run_phase1_parallel; when both
\* sides are done it returns and main increments doc_id.
\* Variant that never gives up on the Vision process.
VisionTimesOutNever(timed_out, is_done) == FALSE

\* "if timed_out: ... if not vision_done:"
VisionTimesOut(timed_out, is_done) == timed_out /\ ~is_done

\* Variant that returns as soon as Docling is done.
BothDoneDocling(d_done, v_done) == d_done

\* "if docling_done and vision_done: break"
BothDone(d_done, v_done) == d_done /\ v_done

Poll ==
    /\ pc = "phase1"
    /\ LET timed_out == elapsed >= timeout
           d  == IF docling_done
                 THEN [rest |-> docling_result_q, done |-> FALSE, result |-> None]
                 ELSE Drain(docling_result_q, doc_id)
           d_done == docling_done \/ d.done
           d_res  == IF d.done THEN d.result ELSE docling_result
           vexit  == ~vision_done /\ vision_proc = "exited"
           v_done == vision_done \/ vexit
           v_res  == IF ~vexit THEN vision_result
                     ELSE IF vision_q # <<>> THEN Unwrap(Head(vision_q))
                     ELSE _exc_error("process exited without result", idx)
           d_to   == DoclingTimesOut(timed_out, d_done)
           v_to   == VisionTimesOut(timed_out, v_done)
       IN  /\ docling_result_q' = d.rest
           /\ docling_done' = (d_done \/ d_to)
           /\ docling_result' = IF d_to THEN _timeout_error(idx) ELSE d_res
           /\ vision_done' = (v_done \/ v_to)
           /\ vision_result' = IF v_to THEN _timeout_error(idx) ELSE v_res
           /\ vision_q' = IF vexit THEN <<>> ELSE vision_q
           /\ \E obeys \in BOOLEAN :
                vision_proc' = IF v_to THEN Cancel(vision_proc, obeys)
                               ELSE vision_proc
           /\ stored' = [stored EXCEPT ![doc_id] =
                            @ + (IF d.done THEN 1 ELSE 0) + (IF d_to THEN 1 ELSE 0)]
           /\ docling_proc' = IF d_to THEN WorkerAfterTimeout(docling_proc)
                               ELSE docling_proc
           /\ IF BothDone(d_done \/ d_to, v_done \/ v_to)
              THEN pc' = "gate" /\ doc_id' = NextDocId(doc_id)
              ELSE UNCHANGED <<pc, doc_id>>
    /\ UNCHANGED <<run, config, idx, docling_task, docling_task_q, elapsed,
                   witnesses, used_tesseract, tess, ledger, disk, dispatched,
                   written>>
    /\ UNCHANGED pvars

\* -------------------------------------------------------------- gate
\* "if vision_result and not vision_result.get('error') and docling_text"
GateScored(d, v) == v # None /\ v.error = "" /\ d.text # <<>>

\* needs_tesseract as main computes it in "Phase 2: Vision gate".
needs_tesseract(d, v, available) ==
    \/ ~available
    \/ /\ GateScored(d, v)
       /\ ~GateAccepts(vision_gate_score(d, v), VISION_THRESHOLD)

\* Variant that starts Tesseract and does not wait for it.
AfterGateNoWait(run_tess) == "score"

\* "if needs_tesseract and tesseract_available": main runs
\* run_tesseract_in_process to its return before it goes on to the
\* quality assessment.
AfterGate(run_tess) == IF run_tess THEN "tess" ELSE "score"

\* main, from the return of run_phase1_parallel to the start of the
\* Tesseract process: the witnesses are filled in and the gate decides.
Gate ==
    /\ pc = "gate"
    /\ witnesses' = [docling |-> docling_result,
                     vision |-> IF GateScored(docling_result, vision_result)
                                THEN vision_result ELSE None,
                     tesseract |-> None]
    /\ IF needs_tesseract(docling_result, vision_result, vision_available)
          /\ tesseract_available
       THEN /\ tess_proc' = "alive"
            /\ tess_q' = <<>>
            /\ tess_rss' \in MemLevels
            /\ elapsed' = 0
            /\ pc' = AfterGate(TRUE)
       ELSE /\ pc' = AfterGate(FALSE)
            /\ UNCHANGED <<tess, elapsed>>
    /\ UNCHANGED <<run, config, idx, doc_id, worker, docling_task_q,
                   docling_result_q, phase1, vision, used_tesseract, ledger,
                   disk, ghosts>>
    /\ UNCHANGED pvars

\* _tesseract_worker: ('ok', result) or ('err', str(e)), then it exits.
TessFinish ==
    /\ tess_proc = "alive"
    /\ \E e \in { Envelope("ok", -1, r) : r \in TesseractOutputs(idx) }
            \cup { Envelope("err", -1, Result(<<>>, NoPages, "error", idx)) } :
        tess_q' = <<e>>
    /\ tess_proc' = "exited"
    /\ tess_rss' = 0
    /\ UNCHANGED <<pc, run, config, idx, doc_id, worker, docling_task_q,
                   docling_result_q, phase1, vision, elapsed, witnesses,
                   used_tesseract, ledger, disk, ghosts>>
    /\ UNCHANGED pvars

\* The Tesseract process dies before it has put anything on its queue.
TessDies ==
    /\ tess_proc = "alive"
    /\ tess_proc' = "exited"
    /\ tess_rss' = 0
    /\ UNCHANGED <<pc, run, config, idx, doc_id, worker, docling_task_q,
                   docling_result_q, phase1, vision, elapsed, witnesses,
                   used_tesseract, tess_q, ledger, disk, ghosts>>
    /\ UNCHANGED pvars

\* run_tesseract_in_process returning: on timeout, on the memory limit
\* (mem_over: _mem_gb() is above MEM_ABORT_GB), or after the child exited.
\* `own` is the resident memory of the process main runs in.
TessReturn ==
    /\ pc = "tess"
    /\ \E own \in MemLevels :
        LET mem_over == _mem_gb(own, tess_rss) > MEM_ABORT_GB
            r == IF tess_proc = "alive"
                      THEN IF elapsed >= timeout THEN _timeout_error(idx)
                           ELSE _exc_error("memory limit exceeded", idx)
                      ELSE IF tess_q # <<>> THEN Unwrap(Head(tess_q))
                      ELSE _exc_error("process exited without result", idx)
        IN  /\ tess_proc = "alive" => (elapsed >= timeout \/ mem_over)
            /\ witnesses' = [witnesses EXCEPT !.tesseract = r]
    /\ used_tesseract' = TRUE
    /\ \E obeys \in BOOLEAN :
        tess_proc' = IF tess_proc = "alive" THEN Cancel(tess_proc, obeys)
                     ELSE "exited"
    /\ tess_q' = <<>>
    /\ tess_rss' = 0
    /\ pc' = "score"
    /\ UNCHANGED <<run, config, idx, doc_id, worker, docling_task_q,
                   docling_result_q, phase1, vision, elapsed, ledger, disk,
                   ghosts>>
    /\ UNCHANGED pvars

\* ------------------------------------------------------------ ledger
\* The text files save_witness_texts writes for a set of witnesses.
TextFilesOf(key, w) == { <<key, e>> : e \in { n \in Engines : w[n].text # <<>> } }

\* main, from the quality assessment to the opening of the temporary
\* file in save_results: texts are written, the entry is appended.
Record ==
    /\ pc = "score"
    /\ written' = written \cup TextFilesOf(idx, witnesses)
    /\ results' = Recorded(results, Entry(idx, witnesses, used_tesseract))
    /\ files' = [files EXCEPT ![with_suffix(output_path)] = File(<<>>)]
    /\ pc' = "save"
    /\ UNCHANGED <<run, config, idx, doc_id, worker, docling_task_q,
                   docling_result_q, phase1, vision, elapsed, witnesses,
                   used_tesseract, tess, done_keys, committed, stored,
                   dispatched>>
    /\ UNCHANGED pvars

\* save_results, json.dump: the next piece reaches the temporary file.
SaveWrite ==
    /\ pc = "save"
    /\ Len(files[with_suffix(output_path)].data) < Len(Serialize(results))
    /\ files' = [files EXCEPT ![with_suffix(output_path)] =
                    File(Append(@.data, Serialize(results)[Len(@.data) + 1]))]
    /\ UNCHANGED <<pc, run, config, idx, doc_id, worker, docling_task_q,
                   docling_result_q, phase1, vision, elapsed, witnesses,
                   used_tesseract, tess, ledger, committed,
                   ghosts>>
    /\ UNCHANGED pvars

\* tmp.replace(output_path): the rename.
Replace(fs, src, dst) ==
    IF src = dst THEN fs
    ELSE [fs EXCEPT ![dst] = fs[src], ![src] = Absent]

\* save_results, the rename, and the document loop moves on: the locals
\* of the finished document are dead from here on.
SaveReplace ==
    /\ pc = "save"
    /\ Len(files[with_suffix(output_path)].data) = Len(Serialize(results))
    /\ files' = Replace(files, with_suffix(output_path), output_path)
    /\ committed' = results
    /\ idx' = idx + 1
    /\ pc' = "loop"
    /\ docling_done' = FALSE
    /\ docling_result' = None
    /\ vision_done' = FALSE
    /\ vision_result' = None
    /\ vision_proc' = "none"
    /\ vision_q' = <<>>
    /\ elapsed' = 0
    /\ witnesses' = NoWitnesses
    /\ used_tesseract' = FALSE
    /\ tess_proc' = "none"
    /\ tess_q' = <<>>
    /\ tess_rss' = 0
    /\ UNCHANGED <<run, config, doc_id, worker, docling_task_q,
                   docling_result_q, ledger, ghosts>>
    /\ UNCHANGED pvars

\* ---------------------------------------------------------- shutdown
\* main, the finally clause: the sentinel, a bounded join, terminate.
Finally ==
    /\ pc = "loop"
    /\ idx > NDocs
    /\ docling_task_q' = Append(docling_task_q, Shutdown)
    /\ pc' = "join"
    /\ UNCHANGED <<run, config, idx, doc_id, worker, docling_result_q,
                   phase1, vision, elapsed, witnesses, used_tesseract, tess,
                   ledger, disk, ghosts>>
    /\ UNCHANGED pvars

Join ==
    /\ pc = "join"
    /\ pc' = "done"
    /\ docling_proc' = "none"
    /\ docling_task' = NoTask
    /\ docling_task_q' = <<>>
    /\ docling_result_q' = <<>>
    /\ docling_done' = FALSE
    /\ docling_result' = None
    /\ vision_done' = FALSE
    /\ vision_result' = None
    /\ vision_proc' = "none"
    /\ vision_q' = <<>>
    /\ elapsed' = 0
    /\ witnesses' = NoWitnesses
    /\ used_tesseract' = FALSE
    /\ tess_proc' = "none"
    /\ tess_q' = <<>>
    /\ tess_rss' = 0
    /\ UNCHANGED <<run, config, idx, doc_id, ledger, disk, ghosts>>
    /\ UNCHANGED pvars

\* ------------------------------------------------- crash and restart
\* The process is killed: nothing but the files survives.
Crash ==
    /\ pc \notin {"done", "crashed"}
    /\ pc' = "crashed"
    /\ idx' = 1
    /\ doc_id' = 0
    /\ docling_proc' = "none"
    /\ docling_task' = NoTask
    /\ docling_task_q' = <<>>
    /\ docling_result_q' = <<>>
    /\ docling_done' = FALSE
    /\ docling_result' = None
    /\ vision_done' = FALSE
    /\ vision_result' = None
    /\ vision_proc' = "none"
    /\ vision_q' = <<>>
    /\ elapsed' = 0
    /\ witnesses' = NoWitnesses
    /\ used_tesseract' = FALSE
    /\ tess_proc' = "none"
    /\ tess_q' = <<>>
    /\ tess_rss' = 0
    /\ results' = <<>>
    /\ done_keys' = {}
    /\ stored' = [i \in 0..NDocs |-> 0]
    /\ dispatched' = <<>>
    /\ written' = {}
    /\ UNCHANGED <<run, config, disk>>
    /\ UNCHANGED pvars

\* main() is invoked again over the same files.
Restart ==
    /\ pc \in {"done", "crashed"}
    /\ run < MaxRuns
    /\ run' = run + 1
    /\ pc' = "start"
    /\ idx' = 1
    /\ doc_id' = 0
    /\ docling_proc' = "none"
    /\ docling_task' = NoTask
    /\ docling_task_q' = <<>>
    /\ docling_result_q' = <<>>
    /\ docling_done' = FALSE
    /\ docling_result' = None
    /\ vision_done' = FALSE
    /\ vision_result' = None
    /\ vision_proc' = "none"
    /\ vision_q' = <<>>
    /\ elapsed' = 0
    /\ witnesses' = NoWitnesses
    /\ used_tesseract' = FALSE
    /\ tess_proc' = "none"
    /\ tess_q' = <<>>
    /\ tess_rss' = 0
    /\ results' = <<>>
    /\ done_keys' = {}
    /\ stored' = [i \in 0..NDocs |-> 0]
    /\ dispatched' = <<>>
    /\ written' = {}
    /\ UNCHANGED <<config, disk>>
    /\ UNCHANGED pvars

Next ==
    \/ StartDoclingWorker \/ WorkerInit \/ StartupReceive \/ StartupTimeout
    \/ WorkerTake \/ WorkerFinish \/ Tick \/ LoadResults \/ SkipDoc
    \/ Dispatch \/ VisionFinish \/ VisionDies \/ Poll \/ Gate
    \/ TessFinish \/ TessDies \/ TessReturn \/ Record \/ SaveWrite
    \/ SaveReplace \/ Finally \/ Join \/ Restart

Spec == Init /\ [][Next]_vars

\* The same program with no Vision and no Tesseract installed, killed at
\* arbitrary points and started again.
InitCrash ==
    /\ Init
    /\ ~vision_available
    /\ ~tesseract_available

NextCrash ==
    \/ StartDoclingWorker \/ WorkerInit \/ StartupReceive \/ StartupTimeout
    \/ WorkerTake \/ WorkerFinish \/ Tick \/ LoadResults \/ SkipDoc
    \/ Dispatch \/ Poll \/ Gate \/ Record \/ SaveWrite \/ SaveReplace
    \/ Finally \/ Join \/ Crash \/ Restart

SpecCrash == InitCrash /\ [][NextCrash]_vars

\* ------------------------------------------------ the gate on its own
\* The texts a page can carry at the gate.
GateTexts ==
    { <<"a">>, <<"a", "b">>, <<"a", "c">>,
      <<"A", " ", "B", " ", "C">>, <<"D", " ", "E", " ", "F">> }

\* Docling's page_texts: 1-based page numbers, only pages with text.
DoclingPageMaps ==
    UNION { [S -> GateTexts] : S \in SUBSET (1..MaxPages) }

\* Vision's page_texts: the first pages of the file under their 0-based
\* index, '' for a page the API found nothing on.
VisionPageMaps ==
    UNION { [0..(m - 1) -> GateTexts \cup {<<>>}] : m \in 0..MaxPages }

\* 'text' of a result with these pages (the gate only tests it for '').
TextOf(pages) ==
    IF \A i \in DOMAIN pages : pages[i] = <<>> THEN <<>>
    ELSE pages[CHOOSE i \in DOMAIN pages :
                    /\ pages[i] # <<>>
                    /\ \A j \in DOMAIN pages : pages[j] # <<>> => i <= j]

GateDoclingInputs(k) ==
    { DoclingResult(TextOf(pg), pg, "", k) : pg \in DoclingPageMaps }
        \cup { DoclingResult(<<"a">>, NoPages, "", k), _exc_error("error", k),
               _timeout_error(k) }

GateVisionInputs(k) ==
    { Result(TextOf(pg), pg, "", k) : pg \in VisionPageMaps }
        \cup { _exc_error("error", k), _timeout_error(k) }

\* main right after run_phase1_parallel has returned for the first
\* document, with Vision installed: any pair of phase-1 results.
InitGate ==
    /\ SampleOff
    /\ pc = "gate"
    /\ run = 1
    /\ vision_available = TRUE
    /\ tesseract_available \in BOOLEAN
    /\ idx = 1
    /\ doc_id = 1
    /\ docling_proc = "idle"
    /\ docling_task = NoTask
    /\ docling_task_q = <<>>
    /\ docling_result_q = <<>>
    /\ docling_done = TRUE
    /\ docling_result \in GateDoclingInputs(1)
    /\ vision_done = TRUE
    /\ vision_result \in GateVisionInputs(1)
    /\ vision_proc = "exited"
    /\ vision_q = <<>>
    /\ elapsed = 0
    /\ witnesses = NoWitnesses
    /\ used_tesseract = FALSE
    /\ tess_proc = "none"
    /\ tess_q = <<>>
    /\ tess_rss = 0
    /\ results = <<>>
    /\ done_keys = {}
    /\ stored = [i \in 0..NDocs |-> IF i = 0 THEN 1 ELSE 0]
    /\ dispatched = <<0>>
    /\ written = {}
    /\ files = [p \in Paths |-> Absent]
    /\ committed = <<>>
    /\ PoolOff
    /\ ppc = "off"
    /\ prun = 0

NextGate == Gate \/ Tick \/ TessFinish \/ TessDies \/ TessReturn

SpecGate == InitGate /\ [][NextGate]_vars

\* ======================================================================
\* scripts/05_extract_embedded.py
\* ======================================================================
\* The inventory: every key is an embedded-font document with a PDF.
inventory == [i \in 1..NDocs |-> i]

res_path == "output"

PriorLog ==
    IF log_files[res_path].exists THEN Parse(log_files[res_path].data) ELSE <<>>

\* --force is given or not; with nothing marked ok it changes nothing, so
\* it is only tried when the done-set is non-empty.
ForceChoices(dn) == IF dn = {} THEN {FALSE} ELSE BOOLEAN

\* --workers: the first invocation is tried with every pool size, a later
\* one with a single worker.
WorkerChoices(r) == IF r = 1 THEN 1..MaxWorkers ELSE {1}

\* main, "Resume: skip already-extracted docs" up to "Nothing to do".
PoolResume ==
    /\ ppc = "resume"
    /\ \E f \in ForceChoices(OkKeys(PriorLog)), nw \in WorkerChoices(prun) :
        LET cands == Filter(inventory, OkKeys(PriorLog), f)
        IN  /\ force' = f
            /\ done' = OkKeys(PriorLog)
            /\ candidates' = cands
            /\ n_workers' = Min(nw, Len(cands))
            /\ ppc' = IF cands = <<>> THEN "done" ELSE "startup"
    /\ wid' = 0
    /\ UNCHANGED <<prun, log_results, workers, worker_task, task_q, result_q,
                   start_times, completed, saving, save_lock, log_files,
                   enqueued, appended, doc_written>>
    /\ UNCHANGED gvars

\* The start-up loop starts worker `wid`.
PoolStartWorker ==
    /\ ppc = "startup"
    /\ workers' = [workers EXCEPT ![wid] = "init"]
    /\ ppc' = "await"
    /\ UNCHANGED <<prun, force, n_workers, candidates, done, log_results,
                   worker_task, wid, task_q, result_q, start_times, completed,
                   saving, save_lock, log_files, enqueued, appended,
                   doc_written>>
    /\ UNCHANGED gvars

\* _docling_worker, initialisation: 'ready', or 'init_err' and return.
PoolWorkerInit(w) ==
    /\ workers[w] = "init"
    /\ \E ok \in BOOLEAN :
        IF ok
        THEN /\ result_q' = Append(result_q, PoolMsg("ready", w, -1, 0))
             /\ workers' = [workers EXCEPT ![w] = "idle"]
        ELSE /\ result_q' = Append(result_q, PoolMsg("init_err", w, -1, 0))
             /\ workers' = [workers EXCEPT ![w] = "failed"]
    /\ UNCHANGED <<ppc, prun, force, n_workers, candidates, done, log_results,
                   worker_task, wid, task_q, start_times, completed, saving,
                   save_lock, log_files, enqueued, appended, doc_written>>
    /\ UNCHANGED gvars

\* Variant that takes any start-up message for 'ready'.
ReadyReportedAny(m) == TRUE

\* "if status == 'ready':"
ReadyReported(m) == m.status = "ready"

\* The start-up loop receives the worker's message: 'ready' moves on to
\* the next worker, 'init_err' puts one sentinel per started worker on
\* task_q and returns.
PoolAwaitReceive ==
    /\ ppc = "await"
    /\ result_q # <<>>
    /\ result_q' = Tail(result_q)
    /\ IF ReadyReported(Head(result_q))
       THEN /\ wid' = wid + 1
            /\ ppc' = IF wid + 1 = n_workers THEN "enqueue" ELSE "startup"
            /\ UNCHANGED task_q
       ELSE /\ task_q' = task_q \o AbortSentinels(wid + 1)
            /\ ppc' = "aborted"
            /\ UNCHANGED wid
    /\ UNCHANGED <<prun, force, n_workers, candidates, done, log_results,
                   workers, worker_task, start_times, completed, saving,
                   save_lock, log_files, enqueued, appended, doc_written>>
    /\ UNCHANGED gvars

\* The start-up loop gets nothing within 240 s: sentinels, and return.
PoolAwaitTimeout ==
    /\ ppc = "await"
    /\ result_q = <<>>
    /\ task_q' = task_q \o AbortSentinels(wid + 1)
    /\ ppc' = "aborted"
    /\ UNCHANGED <<prun, force, n_workers, candidates, done, log_results,
                   workers, worker_task, wid, result_q, start_times,
                   completed, saving, save_lock, log_files, enqueued,
                   appended, doc_written>>
    /\ UNCHANGED gvars

\* Variant that starts every clock when the tasks are enqueued.
InitialClockAtEnqueue(k) == 0

\* "start_times = {}": no document has a clock before its 'started'.
InitialClock(k) == -1

\* Variant that puts a single sentinel whatever the size of the pool.
WorkerSentinelsOne(n) == <<PoolShutdown>>

\* "for _ in range(n_workers): task_q.put(None)"
WorkerSentinels(n) == [i \in 1..n |-> PoolShutdown]

\* "while completed < total": where the loop goes after an iteration.
LoopTop(n, total) == IF n < total THEN "check" ELSE "drain"

\* "Enqueue all tasks", one sentinel per worker, and the collection loop
\* is set up with results = list(prior).
\* Variant that puts the sentinels before the tasks.
QueueOrderSentinelsFirst(tasks, sentinels) == sentinels \o tasks

\* The tasks are put first, then the sentinels.
QueueOrder(tasks, sentinels) == tasks \o sentinels

PoolEnqueue ==
    /\ ppc = "enqueue"
    /\ task_q' = task_q
            \o QueueOrder([i \in 1..Len(candidates) |->
                                PoolTask(i - 1, candidates[i])],
                          WorkerSentinels(n_workers))
    /\ enqueued' = { candidates[i] : i \in 1..Len(candidates) }
    /\ log_results' = PriorLog
    /\ completed' = 0
    /\ start_times' = [k \in Keys |-> InitialClock(k)]
    /\ ppc' = LoopTop(0, Len(candidates))
    /\ UNCHANGED <<prun, force, n_workers, candidates, done, workers,
                   worker_task, wid, result_q, saving, save_lock, log_files,
                   appended, doc_written>>
    /\ UNCHANGED gvars

\* A worker takes a message: None ends its loop, a task is announced with
\* 'started'.
PoolWorkerTake(w) ==
    /\ workers[w] = "idle"
    /\ task_q # <<>>
    /\ task_q' = Tail(task_q)
    /\ IF Head(task_q) = PoolShutdown
       THEN /\ workers' = [workers EXCEPT ![w] = "stopped"]
            /\ UNCHANGED <<worker_task, result_q>>
       ELSE /\ workers' = [workers EXCEPT ![w] = "busy"]
            /\ worker_task' = [worker_task EXCEPT ![w] = Head(task_q)]
            /\ result_q' = Append(result_q,
                    PoolMsg("started", w, Head(task_q).doc_id, Head(task_q).key))
    /\ UNCHANGED <<ppc, prun, force, n_workers, candidates, done, log_results,
                   wid, start_times, completed, saving, save_lock, log_files,
                   enqueued, appended, doc_written>>
    /\ UNCHANGED gvars

\* Variant in which an exception of ext.extract leaves the worker loop.
PoolWorkerAfterRaises(status) == IF status = "err" THEN "stopped" ELSE "idle"

\* The try/except/finally of the worker loop: after 'ok' as after 'err'
\* the worker is back at task_q.get().
PoolWorkerAfter(status) == "idle"

\* A worker finishes an extraction with 'ok' or 'err'.
PoolWorkerFinish(w) ==
    /\ workers[w] = "busy"
    /\ \E status \in {"ok", "err"} :
        /\ result_q' = Append(result_q,
                PoolMsg(status, w, worker_task[w].doc_id, worker_task[w].key))
        /\ workers' = [workers EXCEPT ![w] = PoolWorkerAfter(status)]
    /\ worker_task' = [worker_task EXCEPT ![w] = NoPoolTask]
    /\ UNCHANGED <<ppc, prun, force, n_workers, candidates, done, log_results,
                   wid, task_q, start_times, completed, saving, save_lock,
                   log_files, enqueued, appended, doc_written>>
    /\ UNCHANGED gvars
\* Time passes while the collection loop waits in result_q.get: the
\* clocks of the started documents advance together.
PoolTick ==
    /\ ppc = "get"
    /\ \E k \in Keys : start_times[k] >= 0 /\ start_times[k] <= timeout
    /\ start_times' = [k \in Keys |->
            IF start_times[k] >= 0 /\ start_times[k] <= timeout
            THEN start_times[k] + 1 ELSE start_times[k]]
    /\ UNCHANGED <<ppc, prun, force, n_workers, candidates, done, log_results,
                   workers, worker_task, wid, task_q, result_q, completed,
                   saving, save_lock, log_files, enqueued, appended,
                   doc_written>>
    /\ UNCHANGED gvars

\* "if now - t_start > args.timeout"
Expired(t_start) == t_start > timeout

\* Variant that enters the guarded block without waiting for the lock.
AcquireUnlocked(lock) == TRUE

\* "with _save_lock:": the block is entered once the lock is free.
Acquire(lock) == lock = "free"

\* save_log, first half: the whole list goes to the temporary file.
LogWritten(fs, rs) == [fs EXCEPT ![with_suffix(res_path)] = File(Serialize(rs))]

\* The timeout check finds a started document over its time: it is
\* counted as completed and its 'timeout' entry is appended under the
\* lock, then save_log starts.
PoolTimeoutKey(k) ==
    /\ ppc = "check"
    /\ Expired(start_times[k])
    /\ Acquire(save_lock)
    /\ start_times' = [start_times EXCEPT ![k] = -1]
    /\ completed' = completed + 1
    /\ save_lock' = "main"
    /\ log_results' = Append(log_results, PoolEntry(k, "timeout"))
    /\ appended' = appended \cup {k}
    /\ log_files' = LogWritten(log_files, Append(log_results, PoolEntry(k, "timeout")))
    /\ ppc' = "saving_t"
    /\ UNCHANGED <<prun, force, n_workers, candidates, done, workers,
                   worker_task, wid, task_q, result_q, saving, enqueued,
                   doc_written>>
    /\ UNCHANGED gvars

\* The timeout check is through: on to result_q.get.
PoolCheckDone ==
    /\ ppc = "check"
    /\ \A k \in Keys : ~Expired(start_times[k])
    /\ ppc' = "get"
    /\ UNCHANGED <<prun, force, n_workers, candidates, done, log_results,
                   workers, worker_task, wid, task_q, result_q, start_times,
                   completed, saving, save_lock, log_files, enqueued,
                   appended, doc_written>>
    /\ UNCHANGED gvars

\* result_q.get(timeout=0.5) raises Empty: continue.
PoolGetEmpty ==
    /\ ppc = "get"
    /\ result_q = <<>>
    /\ ppc' = LoopTop(completed, Len(candidates))
    /\ UNCHANGED <<prun, force, n_workers, candidates, done, log_results,
                   workers, worker_task, wid, task_q, result_q, start_times,
                   completed, saving, save_lock, log_files, enqueued,
                   appended, doc_written>>
    /\ UNCHANGED gvars

\* result_q.get returns a message and the loop body handles it.
PoolReceive ==
    /\ ppc = "get"
    /\ result_q # <<>>
    /\ result_q' = Tail(result_q)
    /\ LET m == Head(result_q)
       IN  IF m.key = 0
           THEN /\ ppc' = LoopTop(completed, Len(candidates))
                /\ UNCHANGED <<start_times, completed, saving, save_lock,
                               log_results, log_files, appended>>
           ELSE IF m.status = "started"
           THEN /\ start_times' = [start_times EXCEPT ![m.key] = 0]
                /\ ppc' = LoopTop(completed, Len(candidates))
                /\ UNCHANGED <<completed, saving, save_lock, log_results,
                               log_files, appended>>
           ELSE /\ Acquire(save_lock)
                /\ start_times' = [start_times EXCEPT ![m.key] = -1]
                /\ IF Already(log_results, m.key)
                   THEN /\ ppc' = LoopTop(completed, Len(candidates))
                        /\ UNCHANGED <<completed, saving, save_lock,
                                       log_results, log_files, appended>>
                   ELSE IF m.status = "ok"
                   THEN /\ saving' = [saving EXCEPT ![m.key] = "queued"]
                        /\ completed' = completed + 1
                        /\ ppc' = LoopTop(completed + 1, Len(candidates))
                        /\ UNCHANGED <<save_lock, log_results, log_files,
                                       appended>>
                   ELSE /\ save_lock' = "main"
                        /\ log_results' = Append(log_results, PoolEntry(m.key, "error"))
                        /\ appended' = appended \cup {m.key}
                        /\ log_files' = LogWritten(log_files,
                                Append(log_results, PoolEntry(m.key, "error")))
                        /\ completed' = completed + 1
                        /\ ppc' = "saving_e"
                        /\ UNCHANGED saving
    /\ UNCHANGED <<prun, force, n_workers, candidates, done, workers,
                   worker_task, wid, task_q, enqueued, doc_written>>
    /\ UNCHANGED gvars

\* save_log, second half, in the main thread: the rename, and the lock
\* is released.
PoolMainSaveEnd ==
    /\ ppc \in {"saving_t", "saving_e"}
    /\ log_files' = Replace(log_files, with_suffix(res_path), res_path)
    /\ save_lock' = "free"
    /\ ppc' = IF ppc = "saving_t" THEN "check" ELSE LoopTop(completed, Len(candidates))
    /\ UNCHANGED <<prun, force, n_workers, candidates, done, log_results,
                   workers, worker_task, wid, task_q, result_q, start_times,
                   completed, saving, enqueued, appended, doc_written>>
    /\ UNCHANGED gvars

\* ThreadPoolExecutor(max_workers=2)
SAVE_THREADS == 2

\* A save thread runs save_document for a queued document: the files are
\* written, or the call raises.
PoolSaveDocument(k) ==
    /\ saving[k] = "queued"
    /\ Cardinality({ j \in Keys : saving[j] \in {"saved", "failed", "logging"} })
            < SAVE_THREADS
    /\ \E ok \in BOOLEAN :
        saving' = [saving EXCEPT ![k] = IF ok THEN "saved" ELSE "failed"]
    /\ doc_written' = doc_written \cup {k}
    /\ UNCHANGED <<ppc, prun, force, n_workers, candidates, done, log_results,
                   workers, worker_task, wid, task_q, result_q, start_times,
                   completed, save_lock, log_files, enqueued, appended>>
    /\ UNCHANGED gvars

\* _on_save_done: the entry ('ok' or 'save_error') is appended under the
\* lock and save_log starts.
PoolCallbackBegin(k) ==
    /\ saving[k] \in {"saved", "failed"}
    /\ Acquire(save_lock)
    /\ save_lock' = "save"
    /\ LET e == PoolEntry(k, IF saving[k] = "saved" THEN "ok" ELSE "save_error")
       IN  /\ log_results' = Append(log_results, e)
           /\ log_files' = LogWritten(log_files, Append(log_results, e))
    /\ appended' = appended \cup {k}
    /\ saving' = [saving EXCEPT ![k] = "logging"]
    /\ UNCHANGED <<ppc, prun, force, n_workers, candidates, done, workers,
                   worker_task, wid, task_q, result_q, start_times, completed,
                   enqueued, doc_written>>
    /\ UNCHANGED gvars

\* _on_save_done: the rename, and the lock is released.
PoolCallbackEnd(k) ==
    /\ saving[k] = "logging"
    /\ log_files' = Replace(log_files, with_suffix(res_path), res_path)
    /\ save_lock' = "free"
    /\ saving' = [saving EXCEPT ![k] = "none"]
    /\ UNCHANGED <<ppc, prun, force, n_workers, candidates, done, log_results,
                   workers, worker_task, wid, task_q, result_q, start_times,
                   completed, enqueued, appended, doc_written>>
    /\ UNCHANGED gvars

\* Variant that does not wait: shutdown(wait=False).
ShutdownReturnsAtOnce(sv) == TRUE

\* save_pool.shutdown(wait=True) returns once no save is in flight.
ShutdownReturns(sv) == \A k \in Keys : sv[k] = "none"

PoolDrain ==
    /\ ppc = "drain"
    /\ ShutdownReturns(saving)
    /\ ppc' = "join"
    /\ UNCHANGED <<prun, force, n_workers, candidates, done, log_results,
                   workers, worker_task, wid, task_q, result_q, start_times,
                   completed, saving, save_lock, log_files, enqueued,
                   appended, doc_written>>
    /\ UNCHANGED gvars

\* "Shut down workers": a bounded join, then terminate; main returns and
\* its queues and processes are gone.
PoolJoin ==
    /\ ppc = "join"
    /\ ppc' = "done"
    /\ workers' = [w \in 0..(MaxWorkers - 1) |-> "none"]
    /\ worker_task' = [w \in 0..(MaxWorkers - 1) |-> NoPoolTask]
    /\ task_q' = <<>>
    /\ result_q' = <<>>
    /\ start_times' = [k \in Keys |-> -1]
    /\ UNCHANGED <<prun, force, n_workers, candidates, done, log_results,
                   wid, completed, saving, save_lock, log_files, enqueued,
                   appended, doc_written>>
    /\ UNCHANGED gvars

\* main() is invoked again over the same inventory and results log.
PoolRestart ==
    /\ ppc \in {"done", "aborted"}
    /\ prun < MaxRuns
    /\ prun' = prun + 1
    /\ ppc' = "resume"
    /\ force' = FALSE
    /\ n_workers' = 0
    /\ candidates' = <<>>
    /\ done' = {}
    /\ log_results' = <<>>
    /\ workers' = [w \in 0..(MaxWorkers - 1) |-> "none"]
    /\ worker_task' = [w \in 0..(MaxWorkers - 1) |-> NoPoolTask]
    /\ wid' = 0
    /\ task_q' = <<>>
    /\ result_q' = <<>>
    /\ start_times' = [k \in Keys |-> -1]
    /\ completed' = 0
    /\ saving' = [k \in Keys |-> "none"]
    /\ save_lock' = "free"
    /\ enqueued' = {}
    /\ appended' = {}
    /\ doc_written' = {}
    /\ UNCHANGED log_files
    /\ UNCHANGED gvars

\* 02_test_extraction.py not running.
GateOff ==
    /\ Fresh
    /\ pc = "off"
    /\ run = 0
    /\ vision_available = FALSE
    /\ tesseract_available = FALSE
    /\ files = [p \in Paths |-> Absent]
    /\ committed = <<>>

InitPool ==
    /\ SampleOff
    /\ GateOff
    /\ PoolOff
    /\ ppc = "resume"
    /\ prun = 1

NextPool ==
    \/ PoolResume \/ PoolStartWorker \/ PoolAwaitReceive \/ PoolAwaitTimeout
    \/ PoolEnqueue \/ PoolTick \/ PoolCheckDone
    \/ PoolGetEmpty \/ PoolReceive \/ PoolMainSaveEnd \/ PoolDrain
    \/ PoolJoin \/ PoolRestart
    \/ \E w \in 0..(MaxWorkers - 1) : PoolWorkerInit(w)
    \/ \E w \in 0..(MaxWorkers - 1) : PoolWorkerTake(w)
    \/ \E w \in 0..(MaxWorkers - 1) : PoolWorkerFinish(w)
    \/ \E k \in Keys : PoolTimeoutKey(k)
    \/ \E k \in Keys : PoolSaveDocument(k)
    \/ \E k \in Keys : PoolCallbackBegin(k)
    \/ \E k \in Keys : PoolCallbackEnd(k)

SpecPool == InitPool /\ [][NextPool]_vars

\* ======================================================================
\* Properties of scripts/02_test_extraction.py
\* ======================================================================
InDocument == pc \in {"phase1", "gate", "tess", "score", "save"}

AfterPhase1 == pc \in {"gate", "tess", "score", "save"}

OutputKeys ==
    IF files[output_path].exists /\ WellFormed(files[output_path].data)
    THEN KeysOf(Parse(files[output_path].data)) ELSE {}

\* C1: a Docling envelope that arrives after its document timed out is
\* discarded: the 'docling' result of every document is what the worker
\* extracted from that document's own file, or a synthetic timeout or
\* error for that document, never the payload of another document.
StaleResultDiscarded ==
    AfterPhase1 =>
        /\ docling_result \in DoclingOutputs(idx)
                \cup {_timeout_error(idx), _exc_error("error", idx)}
        /\ witnesses.docling \in {None, docling_result}

\* Document 1 timed out, its envelope came late and was dropped by the
\* drain of document 2, which then took its own result.
StaleResultDiscardedWitness ==
    /\ pc = "gate"
    /\ idx = 2
    /\ Len(results) = 1
    /\ results[1].witnesses.docling.error = "timeout"
    /\ docling_result.error = ""
    /\ docling_result.of = 2
    /\ docling_result_q = <<>>

\* C2: doc_ids are strictly increasing and never reused within a run, and
\* for each doc_id docling_result is assigned at most once (the real
\* envelope or the synthetic timeout, never both, never overwritten).
OneResultPerId ==
    /\ \A i, j \in 1..Len(dispatched) : i < j => dispatched[i] < dispatched[j]
    /\ \A i \in 1..Len(dispatched) :
            dispatched[i] < doc_id \/ (pc = "phase1" /\ dispatched[i] = doc_id)
    /\ \A id \in 0..NDocs :
            /\ stored[id] <= 1
            /\ stored[id] = 1 => \E i \in 1..Len(dispatched) : dispatched[i] = id
    /\ pc = "phase1" => (docling_done <=> stored[doc_id] = 1)

\* Two ids have each had exactly one result stored, the second a timeout
\* synthesized while the stale envelope of the first was dropped.
OneResultPerIdWitness ==
    /\ pc = "gate"
    /\ dispatched = <<0, 1>>
    /\ stored[0] = 1
    /\ stored[1] = 1
    /\ results[1].witnesses.docling.error = "timeout"
    /\ docling_result = _timeout_error(2)
    /\ docling_result_q = <<>>
    /\ docling_proc = "busy"

\* C5: at every instant the results file is absent or is the complete
\* serialization of the results list as of the last completed rewrite.
LedgerFileAtomic ==
    IF files[output_path].exists
    THEN files[output_path].data = Serialize(committed)
    ELSE committed = <<>>

\* A rewrite is under way: the temporary file is partly written while the
\* results file still holds the previous complete ledger.
LedgerFileAtomicWitness ==
    /\ pc = "save"
    /\ files[output_path].exists
    /\ Len(committed) = 1
    /\ files["tmp"].exists
    /\ Len(files["tmp"].data) \in 1..2

\* C6: after a crash during a rewrite (temporary file written, rename not
\* done) the results file is unchanged, and the restarted run loads
\* exactly the last fully written ledger and ignores the temporary file.
ResumeLoadsLastLedger ==
    /\ files[output_path].exists =>
            /\ WellFormed(files[output_path].data)
            /\ Parse(files[output_path].data) = committed
    /\ pc \in {"loop", "phase1", "gate", "score"} =>
            /\ results = committed
            /\ done_keys \subseteq KeysOf(committed)
            /\ dispatched = <<>> => done_keys = KeysOf(committed)
    /\ pc = "done" => (idx > NDocs \/ docling_proc = "exited")

\* A restarted run has loaded the one-entry ledger while the temporary
\* file of the interrupted rewrite, holding two entries, is still there.
ResumeLoadsLastLedgerWitness ==
    /\ run = 2
    /\ pc = "loop"
    /\ Len(results) = 1
    /\ files["tmp"].exists
    /\ Len(files["tmp"].data) >= 3
    /\ files[output_path].exists

\* C7: a ledger entry for a document is written only after every witness
\* of that document is terminal; a document that is still in phase 1, at
\* the gate, in the fallback or being scored has no entry.
LedgerAfterTerminal ==
    /\ pc \in {"phase1", "gate", "tess", "score"} =>
            /\ idx \notin KeysOf(results)
            /\ idx \notin OutputKeys
    /\ pc = "save" =>
            /\ docling_done /\ vision_done
            /\ vision_proc # "alive" /\ tess_proc # "alive"
            /\ witnesses.docling = docling_result
            /\ used_tesseract = (witnesses.tesseract # None)
            /\ results[Len(results)].item_key = idx
            /\ \A i \in 1..(Len(results) - 1) : results[i].item_key # idx

\* The entry of a document whose fallback timed out is being written.
LedgerAfterTerminalWitness ==
    /\ pc = "save"
    /\ used_tesseract
    /\ witnesses.tesseract.error = "timeout"
    /\ witnesses.vision # None

\* C9: when neither Docling nor Vision answers before the deadline, both
\* phase-1 results are timeouts and the gate forces the fallback.
TimeoutSymmetry ==
    (/\ pc = "score"
     /\ vision_available /\ tesseract_available
     /\ docling_result = _timeout_error(idx)
     /\ vision_result = _timeout_error(idx)) => used_tesseract

\* C10: the gate fails open: whenever no page pair was scored for the
\* document, the fallback is run if it is available.
GateFailsOpen ==
    (/\ pc = "score"
     /\ tesseract_available
     /\ \/ ~GateScored(docling_result, vision_result)
        \/ ScoredPages(docling_result, vision_result) = {}) => used_tesseract

\* The scheduling the collection loop can count on: main, the save
\* threads and an idle worker each take their next step, and time passes
\* while main waits in result_q.get. Nothing makes an extraction return.
PoolFairness ==
    /\ WF_vars(PoolCheckDone)
    /\ WF_vars(PoolGetEmpty)
    /\ WF_vars(PoolReceive)
    /\ WF_vars(PoolMainSaveEnd)
    /\ WF_vars(PoolDrain)
    /\ WF_vars(PoolJoin)
    /\ SF_vars(PoolTick)
    /\ \A k \in Keys : SF_vars(PoolTimeoutKey(k))
    /\ \A k \in Keys : WF_vars(PoolSaveDocument(k))
    /\ \A k \in Keys : SF_vars(PoolCallbackBegin(k))
    /\ \A k \in Keys : WF_vars(PoolCallbackEnd(k))
    /\ \A w \in 0..(MaxWorkers - 1) : WF_vars(PoolWorkerTake(w))

SpecPoolLive == SpecPool /\ PoolFairness

\* SpecPool with workers that go on: each one takes the next message when
\* it is idle and returns from every extraction.
SpecPoolReturning ==
    SpecPool /\ \A w \in 0..(MaxWorkers - 1) :
                    WF_vars(PoolWorkerTake(w)) /\ WF_vars(PoolWorkerFinish(w))

\* ======================================================================
\* The Vision child: which pages it samples
\* ======================================================================
MaxTotal == 4       \* pages of the largest file

\* VISION_PAGES, the default of --vision-pages.
VISION_PAGES == 3

\* What the API finds on a page: '' when it finds nothing or fails.
PageTexts == {<<>>, <<"a">>, <<"b">>, <<"a", "b">>}

\* Python's round(num / den): to the nearest integer, halves to even.
Round(num, den) ==
    LET q == num \div den
        r == num % den
    IN  IF 2 * r < den THEN q
        ELSE IF 2 * r > den THEN q + 1
        ELSE IF q % 2 = 0 THEN q ELSE q + 1

\* _spread_indices: n evenly spread 0-based indices over [0, total - 1].
_spread_indices(total, n) ==
    IF total <= n THEN 0..(total - 1)
    ELSE { Round(i * (total - 1), n - 1) : i \in 0..(n - 1) }

\* page_indices=None
NoIndices == {-1}

\* VisionExtractor.extract, "Determine which page indices to process".
Indices(total, page_indices, spread, sample_only, max_pages, n) ==
    IF page_indices # NoIndices
    THEN { i \in page_indices : 0 <= i /\ i < total }
    ELSE IF spread /\ sample_only THEN _spread_indices(total, n)
    ELSE IF sample_only THEN 0..(Min(max_pages, total) - 1)
    ELSE 0..(total - 1)

\* _vision_worker: "ext.extract(Path(file_path_str),
\* page_indices=list(range(n_pages)))", the other arguments at their
\* defaults.
WorkerIndices(total, n) == Indices(total, 0..(n - 1), TRUE, TRUE, 1, 3)

\* run_phase1_parallel starts the child on a file, with n_pages =
\* args.vision_pages.
VxStart ==
    /\ vx_pc \in {"idle", "exited"}
    /\ \E t \in 1..MaxTotal, n \in 2..VISION_PAGES :
        /\ vx_total' = t
        /\ vx_n_pages' = n
    /\ vx_pc' = "extract"
    /\ vx_indices' = {}
    /\ vx_page_texts' = <<>>
    /\ UNCHANGED <<mainvars, poolvars, lvars, tvars, rvars>>

\* The child chooses its pages and sends each one to the API.
VxExtract ==
    /\ vx_pc = "extract"
    /\ vx_indices' = WorkerIndices(vx_total, vx_n_pages)
    /\ vx_page_texts' \in [WorkerIndices(vx_total, vx_n_pages) -> PageTexts]
    /\ vx_pc' = "put"
    /\ UNCHANGED <<vx_total, vx_n_pages>>
    /\ UNCHANGED <<mainvars, poolvars, lvars, tvars, rvars>>

\* The result is put on the queue and the child exits.
VxPut ==
    /\ vx_pc = "put"
    /\ vx_pc' = "exited"
    /\ UNCHANGED <<vx_total, vx_n_pages, vx_indices, vx_page_texts>>
    /\ UNCHANGED <<mainvars, poolvars, lvars, tvars, rvars>>

InitSample ==
    /\ vx_pc = "idle"
    /\ vx_total = 0
    /\ vx_n_pages = 0
    /\ vx_indices = {}
    /\ vx_page_texts = <<>>
    /\ LockOff
    /\ PipeOff
    /\ GateOff
    /\ PoolOff
    /\ ppc = "off"
    /\ prun = 0

NextSample == VxStart \/ VxExtract \/ VxPut

SpecSample == InitSample /\ [][NextSample]_vars

\* ======================================================================
\* The lock file of 05_extract_embedded.py (SpecLock)
\* ======================================================================
MaxInvocations == 3     \* invocations of the script started by the user

Invocations == 1..MaxInvocations

\* open(lock_path, 'w'): the file the name leads to, made if there is none.
Opened(path, made) == IF path = 0 THEN made + 1 ELSE path

\* open(lock_path, 'w')
LockOpen(r) ==
    /\ lock_pc[r] = "start"
    /\ lock_path' = Opened(lock_path, lock_files)
    /\ lock_files' = IF lock_path = 0 THEN lock_files + 1 ELSE lock_files
    /\ lock_fh' = [lock_fh EXCEPT ![r] = Opened(lock_path, lock_files)]
    /\ lock_pc' = [lock_pc EXCEPT ![r] = "opened"]
    /\ UNCHANGED flock
    /\ UNCHANGED <<mainvars, poolvars, svars, tvars, rvars>>

\* fcntl.flock(lock_fh, LOCK_EX | LOCK_NB): taken, and main goes on with
\* _release_lock registered; or OSError, and main returns.
LockAcquire(r) ==
    /\ lock_pc[r] = "opened"
    /\ IF flock[lock_fh[r]] = 0
       THEN /\ flock' = [flock EXCEPT ![lock_fh[r]] = r]
            /\ lock_pc' = [lock_pc EXCEPT ![r] = "main"]
            /\ UNCHANGED lock_fh
       ELSE /\ lock_pc' = [lock_pc EXCEPT ![r] = "refused"]
            /\ lock_fh' = [lock_fh EXCEPT ![r] = 0]
            /\ UNCHANGED flock
    /\ UNCHANGED <<lock_path, lock_files>>
    /\ UNCHANGED <<mainvars, poolvars, svars, tvars, rvars>>

\* _release_lock at exit: flock(lock_fh, LOCK_UN)
LockUnlock(r) ==
    /\ lock_pc[r] = "main"
    /\ flock' = [flock EXCEPT ![lock_fh[r]] = 0]
    /\ lock_pc' = [lock_pc EXCEPT ![r] = "unlocked"]
    /\ UNCHANGED <<lock_path, lock_fh, lock_files>>
    /\ UNCHANGED <<mainvars, poolvars, svars, tvars, rvars>>

\* _release_lock: lock_fh.close()
LockClose(r) ==
    /\ lock_pc[r] = "unlocked"
    /\ lock_fh' = [lock_fh EXCEPT ![r] = 0]
    /\ lock_pc' = [lock_pc EXCEPT ![r] = "closed"]
    /\ UNCHANGED <<lock_path, flock, lock_files>>
    /\ UNCHANGED <<mainvars, poolvars, svars, tvars, rvars>>

\* _release_lock: lock_path.unlink(missing_ok=True)
LockUnlink(r) ==
    /\ lock_pc[r] = "closed"
    /\ lock_path' = 0
    /\ lock_pc' = [lock_pc EXCEPT ![r] = "exited"]
    /\ UNCHANGED <<lock_fh, flock, lock_files>>
    /\ UNCHANGED <<mainvars, poolvars, svars, tvars, rvars>>

InitLock ==
    /\ lock_pc = [r \in Invocations |-> "start"]
    /\ lock_path = 0
    /\ lock_fh = [r \in Invocations |-> 0]
    /\ flock = [f \in Invocations |-> 0]
    /\ lock_files = 0
    /\ vx_pc = "off"
    /\ vx_total = 0
    /\ vx_n_pages = 0
    /\ vx_indices = {}
    /\ vx_page_texts = <<>>
    /\ PipeOff
    /\ GateOff
    /\ PoolOff
    /\ ppc = "off"
    /\ prun = 0

NextLock ==
    \E r \in Invocations :
        \/ LockOpen(r)
        \/ LockAcquire(r)
        \/ LockUnlock(r)
        \/ LockClose(r)
        \/ LockUnlink(r)

SpecLock == InitLock /\ [][NextLock]_vars

\* ======================================================================
\* A child process, its private queue and its supervisor (SpecPipe)
\* ======================================================================
\* An mp.Queue is a pipe and, in the putting process, a buffer emptied
\* into the pipe by a feeder thread; a process that has put something
\* exits only when its feeder thread has written everything.
PipeCapacity == 2       \* blocks the pipe holds before a write blocks

MaxSize == PipeCapacity + 1

\* The child is through with its extraction and has no more to write, or
\* cannot write: what a second of the supervisor's sleep is long enough for.
Settled ==
    tp_child = "exiting" => (tp_buffer > 0 /\ tp_pipe = PipeCapacity)

\* p.is_alive()
is_alive == tp_child \in {"running", "exiting"}

\* mp.Process(target=_vision_worker / _tesseract_worker, ...).start()
TpStart ==
    /\ tp_pc \in {"idle", "returned"}
    /\ tp_kind' \in {"vision", "tesseract"}
    /\ tp_size' \in 1..MaxSize
    /\ tp_pc' = "wait"
    /\ tp_child' = "running"
    /\ tp_buffer' = 0
    /\ tp_pipe' = 0
    /\ tp_elapsed' = 0
    /\ tp_put_at' = -1
    /\ tp_return' = "none"
    /\ UNCHANGED <<mainvars, poolvars, svars, lvars, rvars>>

\* _vision_worker, _tesseract_worker: result_queue.put(('ok', result)),
\* and the function returns.
TpPut ==
    /\ tp_child = "running"
    /\ tp_buffer' = tp_size
    /\ tp_put_at' = tp_elapsed
    /\ tp_child' = "exiting"
    /\ UNCHANGED <<tp_kind, tp_pc, tp_size, tp_pipe, tp_elapsed, tp_return>>
    /\ UNCHANGED <<mainvars, poolvars, svars, lvars, rvars>>

\* The feeder thread writes a block, when the pipe has room.
TpFeed ==
    /\ tp_child = "exiting"
    /\ tp_buffer > 0
    /\ tp_pipe < PipeCapacity
    /\ tp_buffer' = tp_buffer - 1
    /\ tp_pipe' = tp_pipe + 1
    /\ UNCHANGED <<tp_kind, tp_pc, tp_child, tp_size, tp_elapsed, tp_put_at,
                   tp_return>>
    /\ UNCHANGED <<mainvars, poolvars, svars, lvars, rvars>>

\* The feeder thread is joined and the process exits.
TpExit ==
    /\ tp_child = "exiting"
    /\ tp_buffer = 0
    /\ tp_child' = "exited"
    /\ UNCHANGED <<tp_kind, tp_pc, tp_size, tp_buffer, tp_pipe, tp_elapsed,
                   tp_put_at, tp_return>>
    /\ UNCHANGED <<mainvars, poolvars, svars, lvars, rvars>>

\* time.sleep(1) with the child alive.
TpSleep ==
    /\ tp_pc = "wait"
    /\ is_alive
    /\ Settled
    /\ tp_elapsed < timeout
    /\ tp_elapsed' = tp_elapsed + 1
    /\ UNCHANGED <<tp_kind, tp_pc, tp_child, tp_size, tp_buffer, tp_pipe,
                   tp_put_at, tp_return>>
    /\ UNCHANGED <<mainvars, poolvars, svars, lvars, rvars>>

\* The deadline with the child alive: terminate, join, kill, and the
\* timeout error is returned.
TpTimeout ==
    /\ tp_pc = "wait"
    /\ is_alive
    /\ Settled
    /\ tp_elapsed >= timeout
    /\ tp_child' = "killed"
    /\ tp_return' = "timeout"
    /\ tp_pc' = "returned"
    /\ UNCHANGED <<tp_kind, tp_size, tp_buffer, tp_pipe, tp_elapsed,
                   tp_put_at>>
    /\ UNCHANGED <<mainvars, poolvars, svars, lvars, rvars>>

\* run_tesseract_in_process: _mem_gb() above MEM_ABORT_GB with the child
\* alive.
TpMemAbort ==
    /\ tp_pc = "wait"
    /\ tp_kind = "tesseract"
    /\ is_alive
    /\ tp_elapsed < timeout
    /\ tp_child' = "killed"
    /\ tp_return' = "memory"
    /\ tp_pc' = "returned"
    /\ UNCHANGED <<tp_kind, tp_size, tp_buffer, tp_pipe, tp_elapsed,
                   tp_put_at>>
    /\ UNCHANGED <<mainvars, poolvars, svars, lvars, rvars>>

\* The child is no longer alive: join, and the queue is read if it is not
\* empty.
TpCollect ==
    /\ tp_pc = "wait"
    /\ ~is_alive
    /\ IF tp_pipe > 0
       THEN /\ tp_return' = "result"
            /\ tp_pipe' = 0
       ELSE /\ tp_return' = "exited without result"
            /\ UNCHANGED tp_pipe
    /\ tp_pc' = "returned"
    /\ UNCHANGED <<tp_kind, tp_child, tp_size, tp_buffer, tp_elapsed,
                   tp_put_at>>
    /\ UNCHANGED <<mainvars, poolvars, svars, lvars, rvars>>

\* The child dies before it has put anything.
TpDies ==
    /\ tp_child = "running"
    /\ tp_child' = "exited"
    /\ UNCHANGED <<tp_kind, tp_pc, tp_size, tp_buffer, tp_pipe, tp_elapsed,
                   tp_put_at, tp_return>>
    /\ UNCHANGED <<mainvars, poolvars, svars, lvars, rvars>>

InitPipe ==
    /\ tp_kind = "none"
    /\ tp_pc = "idle"
    /\ tp_child = "none"
    /\ tp_size = 0
    /\ tp_buffer = 0
    /\ tp_pipe = 0
    /\ tp_elapsed = 0
    /\ tp_put_at = -1
    /\ tp_return = "none"
    /\ SpreadOff
    /\ vx_pc = "off"
    /\ vx_total = 0
    /\ vx_n_pages = 0
    /\ vx_indices = {}
    /\ vx_page_texts = <<>>
    /\ LockOff
    /\ GateOff
    /\ PoolOff
    /\ ppc = "off"
    /\ prun = 0

NextPipe ==
    \/ TpStart
    \/ TpPut
    \/ TpFeed
    \/ TpExit
    \/ TpSleep
    \/ TpTimeout
    \/ TpMemAbort
    \/ TpCollect
    \/ TpDies

SpecPipe == InitPipe /\ [][NextPipe]_vars

\* ======================================================================
\* _spread_indices called on its own (SpecSpread)
\* ======================================================================
MaxSpread == 8      \* largest total and largest n tried

\* "step = (total - 1) / (n - 1)" raises ZeroDivisionError.
SpreadRaises(total, n) == total > n /\ n = 1

\* sorted(...): the elements of a set of integers in ascending order.
RECURSIVE sorted(_)
sorted(S) ==
    IF S = {} THEN <<>>
    ELSE LET lo == CHOOSE x \in S : \A y \in S : x <= y
         IN  <<lo>> \o sorted(S \ {lo})

\* _spread_indices(total, n) returns its list, or raises.
SpreadCall ==
    /\ sp_pc = "call"
    /\ IF SpreadRaises(sp_total, sp_n)
       THEN /\ sp_pc' = "raised"
            /\ sp_indices' = <<>>
       ELSE /\ sp_pc' = "returned"
            /\ sp_indices' = sorted(_spread_indices(sp_total, sp_n))
    /\ UNCHANGED <<sp_total, sp_n>>
    /\ UNCHANGED <<mainvars, poolvars, svars, lvars, tvars>>

InitSpread ==
    /\ sp_pc = "call"
    /\ sp_total \in 1..MaxSpread
    /\ sp_n \in 1..MaxSpread
    /\ sp_indices = <<>>
    /\ tp_kind = "none"
    /\ tp_pc = "off"
    /\ tp_child = "none"
    /\ tp_size = 0
    /\ tp_buffer = 0
    /\ tp_pipe = 0
    /\ tp_elapsed = 0
    /\ tp_put_at = -1
    /\ tp_return = "none"
    /\ vx_pc = "off"
    /\ vx_total = 0
    /\ vx_n_pages = 0
    /\ vx_indices = {}
    /\ vx_page_texts = <<>>
    /\ LockOff
    /\ GateOff
    /\ PoolOff
    /\ ppc = "off"
    /\ prun = 0

NextSpread == SpreadCall

SpecSpread == InitSpread /\ [][NextSpread]_vars

\* ======================================================================
\* Properties of scripts/05_extract_embedded.py
\* ======================================================================
EntriesFor(rs, k) == Cardinality({ i \in 1..Len(rs) : rs[i].key = k })

\* C3: when main has run twice over the same inventory and has returned
\* from its collection loop, the results log on disk holds exactly one
\* entry for every key, whatever the outcome of the key in the first run.
OneEntryPerKey ==
    (prun = 2 /\ ppc = "done") =>
        \A k \in Keys : EntriesFor(PriorLog, k) = 1

\* C4 as stated: every key of the loaded done-set is skipped: no task is
\* put on task_q for it, no entry is appended for it and save_document
\* does not write its files again.
DoneKeysSkipped ==
    \A k \in done :
        /\ k \notin enqueued
        /\ k \notin appended
        /\ k \notin doc_written

\* C4, amended: unless --force is given, every key of the loaded done-set
\* is skipped: no task is put on task_q for it, no entry is appended for
\* it and save_document does not write its files again.
DoneKeysSkippedUnlessForce ==
    ~force =>
        \A k \in done :
            /\ k \notin enqueued
            /\ k \notin appended
            /\ k \notin doc_written

\* The second run, without --force, has skipped the key marked ok and has
\* extracted and logged the other one.
DoneKeysSkippedUnlessForceWitness ==
    /\ prun = 2
    /\ ppc = "done"
    /\ ~force
    /\ done = {1}
    /\ enqueued = {2}
    /\ appended = {2}
    /\ EntriesFor(PriorLog, 1) = 1

\* C8: when the start-up is abandoned (init_err, or no message within
\* the start-up timeout), task_q holds nothing but shutdown sentinels,
\* one at least for every worker still alive, and no document task was
\* put on it in this run: no worker extracts anything.
PoolAbortAtomic ==
    ppc = "aborted" =>
        /\ enqueued = {}
        /\ \A i \in 1..Len(task_q) : task_q[i] = PoolShutdown
        /\ \A w \in 0..(MaxWorkers - 1) :
                /\ workers[w] # "busy"
                /\ w < wid => workers[w] \in {"idle", "stopped"}
                /\ w > wid => workers[w] = "none"
        /\ Cardinality({ w \in 0..(MaxWorkers - 1) :
                            workers[w] \in {"init", "idle"} }) <= Len(task_q)
        /\ \A i \in 1..Len(result_q) :
                result_q[i].status \in {"ready", "init_err"}

\* The second worker reported init_err and the first, ready before it,
\* has taken its sentinel and stopped.
PoolAbortAtomicWitness ==
    /\ ppc = "aborted"
    /\ wid = 1
    /\ workers[0] = "stopped"
    /\ workers[1] = "failed"
    /\ Len(task_q) = 1

\* ======================================================================
\* Properties of the Vision gate
\* ======================================================================
\* The gate has decided and the fallback, if started, has returned.
Decided == pc = "score"

\* twice the gate score of the current document is at least one
AtLeastHalf ==
    LET sc == vision_gate_score(docling_result, vision_result)
    IN  2 * sc[1] >= sc[2]

\* C11 as stated: when both phase-1 results are usable, the fallback is
\* skipped if and only if the gate score is at least the threshold 0.5.
GateThreshold ==
    (Decided /\ GateScored(docling_result, vision_result)) =>
        (~used_tesseract <=> AtLeastHalf)

\* C11, amended: when both phase-1 results are usable and Tesseract is
\* installed, the fallback is skipped if and only if the gate score is at
\* least the threshold 0.5; a score equal to the threshold skips it.
GateThresholdWhenInstalled ==
    (Decided /\ GateScored(docling_result, vision_result)
        /\ tesseract_available) =>
            (~used_tesseract <=> AtLeastHalf)

\* "ab" against "ac" scores exactly 0.5 and Tesseract, installed, is
\* skipped.
GateThresholdWhenInstalledWitness ==
    /\ Decided
    /\ tesseract_available
    /\ GateScored(docling_result, vision_result)
    /\ LET sc == vision_gate_score(docling_result, vision_result)
       IN  2 * sc[1] = sc[2]
    /\ ~used_tesseract

\* The page of the file a key of Docling's page_texts stands for
\* (prov.page_no, counted from 1) and the one a key of Vision's page_texts
\* stands for (an index into all_images, counted from 0).
DoclingPage(key) == key

VisionPage(key) == key + 1

\* Pages of the file with non-empty text in both results.
CommonPages(d, v) ==
    { q \in 1..(MaxPages + 1) :
        /\ q \in { DoclingPage(j) : j \in DOMAIN d.page_texts }
        /\ q \in { VisionPage(i) : i \in DOMAIN v.page_texts }
        /\ d.page_texts[CHOOSE j \in DOMAIN d.page_texts : DoclingPage(j) = q] # <<>>
        /\ v.page_texts[CHOOSE i \in DOMAIN v.page_texts : VisionPage(i) = q] # <<>> }

\* Sum, as a fraction, of the similarities of the two texts of each page.
RECURSIVE SumOverPages(_, _, _)
SumOverPages(P, d, v) ==
    IF P = {} THEN <<0, 1>>
    ELSE LET q == CHOOSE x \in P : TRUE
             f == compute_similarity(
                    v.page_texts[CHOOSE i \in DOMAIN v.page_texts : VisionPage(i) = q],
                    d.page_texts[CHOOSE j \in DOMAIN d.page_texts : DoclingPage(j) = q])
             r == SumOverPages(P \ {q}, d, v)
         IN  <<f[1] * r[2] + r[1] * f[2], f[2] * r[2]>>

SameFraction(x, y) == x[1] * y[2] = y[1] * x[2]

ExamplePrimary == (1 :> <<"A", " ", "B", " ", "C">>) @@ (2 :> <<"D", " ", "E", " ", "F">>)

ExampleSecondary == (0 :> <<"A", " ", "B", " ", "C">>)

FailedNotDone ==
    \A i \in 1..Len(results) :
        Failed(results[i]) => results[i].item_key \notin done_keys

\* ======================================================================
\* Timeouts of the pool dispatcher
\* ======================================================================
\* Candidates a worker has taken from task_q (and announced with
\* 'started') in this run.
StartedKeys ==
    { candidates[i] : i \in 1..Len(candidates) }
        \ { task_q[j].key : j \in 1..Len(task_q) }

\* This step records key k as timed out.
RecordsTimeout(k) ==
    /\ k \notin appended
    /\ k \in appended'
    /\ log_results'[Len(log_results')] = PoolEntry(k, "timeout")

\* C14: a document's clock starts when main receives its 'started', not
\* at enqueue: it is recorded as timed out only if a worker has started
\* it and more than the timeout has passed on its clock, and the clock of
\* a document is set only by that document's 'started' message.
ClockStartsAtStarted ==
    [][\A k \in Keys :
        /\ RecordsTimeout(k) =>
                (k \in StartedKeys /\ start_times[k] > timeout)
        /\ (ppc # "enqueue" /\ start_times[k] = -1 /\ start_times'[k] # -1) =>
                /\ start_times'[k] = 0
                /\ result_q # <<>>
                /\ Head(result_q).status = "started"
                /\ Head(result_q).key = k
                /\ k \in StartedKeys]_vars

\* Key 1 has been recorded as timed out while key 2, behind it on
\* task_q, has not been started and has no clock.
ClockStartsAtStartedWitness ==
    /\ ppc = "saving_t"
    /\ log_results = <<PoolEntry(1, "timeout")>>
    /\ start_times[2] = -1
    /\ \E j \in 1..Len(task_q) : task_q[j].key = 2

\* ======================================================================
\* Timeouts of the phase-1 dispatcher
\* ======================================================================
\* The task of the document run_phase1_parallel has just returned for is
\* still on docling_task_q: the warm worker has not started it.
StillQueued == \E j \in 1..Len(docling_task_q) : docling_task_q[j].doc_id = doc_id - 1

\* C15: the time a task waits on docling_task_q behind an earlier
\* extraction that the warm worker is still running does not count
\* against its document: a document whose task is still queued behind
\* the extraction of a previous document is not given a Docling timeout.
QueuedTimeNotCounted ==
    (/\ pc = "gate"
     /\ docling_result = _timeout_error(idx)
     /\ docling_proc = "busy"
     /\ docling_task.doc_id < doc_id - 1) => ~StillQueued

\* ======================================================================
\* The warm workers
\* ======================================================================
\* main is between the successful start-up and the shutdown.
Serving == pc \in {"resume", "loop", "phase1", "gate", "tess", "score", "save"}

PoolServing == ppc \in {"enqueue", "check", "get", "saving_t", "saving_e", "drain"}

\* C16: between start-up and shutdown a warm worker is never terminated
\* or restarted, a Docling timeout included: a worker that is extracting
\* stays on its task until it puts that task's result on the queue, and
\* then serves the next task; it stops only by taking the sentinel.
WarmWorkerNeverKilled ==
    [][/\ (Serving /\ docling_proc \in {"idle", "busy"}) =>
            /\ docling_proc' \in {"idle", "busy"}
            /\ (docling_proc = "busy" /\ docling_proc' = "busy") =>
                    docling_task' = docling_task
            /\ (docling_proc = "busy" /\ docling_proc' = "idle") =>
                    /\ Len(docling_result_q') = Len(docling_result_q) + 1
                    /\ docling_result_q'[Len(docling_result_q')].rid = docling_task.doc_id
       /\ \A w \in 0..(MaxWorkers - 1) :
            (PoolServing /\ workers[w] \in {"idle", "busy"}) =>
                /\ workers'[w] \in {"idle", "busy", "stopped"}
                /\ workers'[w] = "stopped" =>
                        (workers[w] = "idle" /\ Head(task_q) = PoolShutdown)
                /\ (workers[w] = "busy" /\ workers'[w] = "busy") =>
                        worker_task'[w] = worker_task[w]
                /\ (workers[w] = "busy" /\ workers'[w] = "idle") =>
                        /\ Len(result_q') = Len(result_q) + 1
                        /\ result_q'[Len(result_q')].key = worker_task[w].key
                        /\ result_q'[Len(result_q')].status \in {"ok", "err"}]_vars

\* Document 1 timed out on Docling, and the same worker is now extracting
\* document 2.
WarmWorkerNeverKilledWitness ==
    /\ pc = "phase1"
    /\ idx = 2
    /\ Len(results) = 1
    /\ results[1].witnesses.docling.error = "timeout"
    /\ docling_proc = "busy"
    /\ docling_task = Task(1, 2)

\* ======================================================================
\* Cancellation of the Vision and Tesseract processes
\* ======================================================================
\* C17: when the deadline passes with the Vision or the Tesseract process
\* unfinished, the process is terminated and, if need be, killed: once
\* the supervising call has returned the child is not alive, and the
\* synthetic timeout stands as the result of that side.
CancelledChildIsDead ==
    /\ [](pc \in {"gate", "score", "save"} =>
            (vision_proc # "alive" /\ tess_proc # "alive"))
    /\ [][/\ (pc = "phase1" /\ vision_proc = "alive" /\ vision_done') =>
                /\ elapsed >= timeout
                /\ vision_proc' = "exited"
                /\ vision_result' = _timeout_error(idx)
          /\ (pc = "tess" /\ tess_proc = "alive" /\ pc' = "score"
                /\ elapsed >= timeout) =>
                /\ tess_proc' = "exited"
                /\ witnesses'.tesseract = _timeout_error(idx)]_vars

\* Docling answered, Vision was cancelled at the deadline: the process
\* is gone and its result is the timeout.
CancelledChildIsDeadWitness ==
    /\ pc = "gate"
    /\ docling_result.error = ""
    /\ vision_result = _timeout_error(idx)
    /\ vision_proc = "exited"
    /\ vision_q = <<>>

\* ======================================================================
\* The memory ceiling of the fallback
\* ======================================================================
\* C18: the fallback is memory-aborted only when the resident memory of
\* the Tesseract process itself is above the ceiling, whatever the memory
\* use of the supervising process.
AbortOnChildMemoryOnly ==
    [][(pc = "tess" /\ pc' = "score"
            /\ witnesses'.tesseract = _exc_error("memory limit exceeded", idx)) =>
        tess_rss > MEM_ABORT_GB]_vars

\* ======================================================================
\* Isolation of per-document failures
\* ======================================================================
\* C19: a document on which every engine errored or timed out still gets
\* exactly one entry and the batch goes on to the next document: when
\* main is at the top of the document loop every earlier document has
\* its entry, no key has two, and main returns before the last document
\* only when the worker could not be started.
FailureIsolated ==
    /\ \A i, j \in 1..Len(results) :
            i < j => results[i].item_key # results[j].item_key
    /\ pc \in {"loop", "phase1", "gate", "tess", "score"} =>
            \A k \in 1..(idx - 1) : k \in KeysOf(results)
    /\ pc = "save" => \A k \in 1..idx : k \in KeysOf(results)
    /\ pc \in {"join", "done"} => (idx > NDocs \/ docling_proc = "exited")

\* Docling and Tesseract both failed on document 1 (Vision is not
\* installed); its entry is written and document 2 is being extracted.
FailureIsolatedWitness ==
    /\ pc = "phase1"
    /\ idx = 2
    /\ run = 1
    /\ Len(results) = 1
    /\ Failed(results[1])
    /\ results[1].witnesses.docling.error \in {"error", "timeout"}
    /\ results[1].used_tesseract
    /\ results[1].witnesses.tesseract.error \notin {"", "None"}
    /\ files[output_path].data = Serialize(results)

\* ======================================================================
\* Exceptions inside the warm workers
\* ======================================================================
\* C20: an exception raised by one extraction does not end the worker.
\* Every step that posts an 'err' message is taken by a worker that was
\* extracting, the message carries the identifiers of the task it was
\* working on, and afterwards the worker waits for its next task.
ErrKeepsWorker ==
    [][/\ ( /\ Len(result_q') = Len(result_q) + 1
            /\ result_q'[Len(result_q')].status = "err" ) =>
            LET m == result_q'[Len(result_q')]
            IN  /\ workers[m.wid] = "busy"
                /\ m.doc_id = worker_task[m.wid].doc_id
                /\ m.key = worker_task[m.wid].key
                /\ workers'[m.wid] = "idle"
       /\ ( /\ Len(docling_result_q') = Len(docling_result_q) + 1
            /\ docling_result_q'[Len(docling_result_q')].status = "err" ) =>
            /\ docling_proc = "busy"
            /\ docling_result_q'[Len(docling_result_q')].rid = docling_task.doc_id
            /\ docling_proc' = "idle"]_vars

\* The only worker of the pool raised on document 1; its 'err' message is
\* still in the queue and the same worker is extracting document 2.
ErrKeepsWorkerWitness ==
    /\ n_workers = 1
    /\ workers[0] = "busy"
    /\ worker_task[0].key = 2
    /\ \E i \in 1..Len(result_q) :
            /\ result_q[i].status = "err"
            /\ result_q[i].wid = 0
            /\ result_q[i].key = 1

\* ======================================================================
\* The save lock of the results log
\* ======================================================================
\* The number of threads that are between the append to `results` and
\* the rename of save_log: the main thread, and the callbacks of the save
\* threads.
InsideSave ==
    (IF ppc \in {"saving_t", "saving_e"} THEN 1 ELSE 0)
        + Cardinality({ k \in Keys : saving[k] = "logging" })

IsPrefix(s, t) == Len(s) <= Len(t) /\ \A i \in 1..Len(s) : s[i] = t[i]

\* C21: every append to the results list and the rewrite and rename of
\* the log that follow it run under _save_lock. At most one thread is
\* inside that sequence and it holds the lock; a step that appends takes
\* the lock, a step that changes the log file releases it, and the new
\* file extends the old one.
SaveLockExcludes ==
    /\ [](/\ InsideSave <= 1
          /\ (InsideSave = 0) <=> (save_lock = "free")
          /\ ppc \in {"saving_t", "saving_e"} => save_lock = "main"
          /\ (\E k \in Keys : saving[k] = "logging") => save_lock = "save")
    /\ [][/\ (\E k \in Keys : k \notin appended /\ k \in appended') =>
                (save_lock = "free" /\ save_lock' # "free")
          /\ log_files'[res_path] # log_files[res_path] =>
                /\ save_lock # "free"
                /\ save_lock' = "free"
                /\ log_files'[res_path].data = Serialize(log_results)
                /\ log_files[res_path].exists =>
                        IsPrefix(Parse(log_files[res_path].data),
                                 Parse(log_files'[res_path].data))]_vars

\* A save callback is inside the sequence while the main thread stands
\* at a document that has run out of time and waits for the lock.
SaveLockExcludesWitness ==
    /\ save_lock = "save"
    /\ \E k \in Keys : saving[k] = "logging"
    /\ ppc = "check"
    /\ \E j \in Keys : Expired(start_times[j])

\* ======================================================================
\* Staggered start-up of the pool
\* ======================================================================
StartingUp == ppc \in {"startup", "await"}

\* C22: the workers of the pool are started one at a time. At most one
\* worker is initialising; while the start-up loop runs every worker
\* before the current one has reported ready, none after it is started,
\* and the wait for the current one ends with its message or with the
\* start-up timeout.
StaggeredStartup ==
    /\ Cardinality({ w \in 0..(MaxWorkers - 1) : workers[w] = "init" }) <= 1
    /\ StartingUp =>
        \A w \in 0..(MaxWorkers - 1) :
            /\ w < wid => workers[w] = "idle"
            /\ w > wid => workers[w] = "none"
    /\ ppc = "startup" => (wid < n_workers /\ workers[wid] = "none")
    /\ ppc = "await" =>
        /\ workers[wid] \in {"init", "idle", "failed"}
        /\ ENABLED (PoolAwaitReceive \/ PoolAwaitTimeout)

\* The first worker is ready and the second is loading its models.
StaggeredStartupWitness ==
    /\ ppc = "await"
    /\ wid = 1
    /\ workers[0] = "idle"
    /\ workers[1] = "init"
    /\ result_q = <<>>

\* ======================================================================
\* Shutdown of the workers
\* ======================================================================
\* The collection loop and what follows it, up to the join.
Collecting == ppc \in {"check", "get", "saving_t", "saving_e", "drain", "join"}

SentinelsIn(q) == Cardinality({ i \in 1..Len(q) : q[i] = PoolShutdown })

\* C23: there is one sentinel per worker, the join with its terminate
\* does not wait for a worker, and a worker that took its sentinel takes
\* nothing more. Sentinels in the queue and stopped workers add up to
\* the size of the pool; at the join the step that ends main is enabled
\* whatever the workers do, and after it no worker is left; a stopped
\* worker stays stopped and leaves the queues alone.
ShutdownBounded ==
    /\ [](/\ Collecting =>
                SentinelsIn(task_q)
                  + Cardinality({ w \in 0..(MaxWorkers - 1) : workers[w] = "stopped" })
                  = n_workers
          /\ ppc = "join" => ENABLED PoolJoin
          /\ ppc = "done" => \A w \in 0..(MaxWorkers - 1) : workers[w] = "none"
          /\ pc = "join" =>
                /\ ENABLED Join
                /\ (docling_proc = "exited") #
                        (\E i \in 1..Len(docling_task_q) :
                                docling_task_q[i] = Shutdown))
    /\ [][/\ \A w \in 0..(MaxWorkers - 1) :
                workers[w] = "stopped" =>
                    /\ workers'[w] \in {"stopped", "none"}
                    /\ worker_task'[w] = worker_task[w]
                    /\ workers'[w] = "stopped" =>
                            \A i \in 1..Len(result_q') : result_q'[i].wid = w =>
                                \E j \in 1..Len(result_q) : result_q[j] = result_q'[i]
          /\ \A w \in 0..(MaxWorkers - 1) :
                (workers[w] # "stopped" /\ workers'[w] = "stopped") =>
                    (Head(task_q) = PoolShutdown /\ task_q' = Tail(task_q))
          /\ docling_proc = "exited" => docling_proc' \in {"exited", "none"}]_vars

\* Main is at the join while worker 0 is still inside the extraction that
\* timed out, its sentinel untaken, and worker 1 has stopped.
ShutdownBoundedWitness ==
    /\ ppc = "join"
    /\ n_workers = 2
    /\ workers[0] = "busy"
    /\ workers[1] = "stopped"
    /\ SentinelsIn(task_q) = 1

\* ======================================================================
\* Late results in the pool
\* ======================================================================
\* The document was recorded as a timeout by the running invocation.
TimedOutNow(k) ==
    /\ k \in appended
    /\ \E i \in 1..Len(log_results) : log_results[i] = PoolEntry(k, "timeout")

\* The collection loop takes an 'ok' or 'err' message of document k.
ReceivesResult(k) ==
    /\ ppc = "get"
    /\ result_q # <<>>
    /\ result_q' = Tail(result_q)
    /\ Head(result_q).key = k
    /\ Head(result_q).status \in {"ok", "err"}

\* C24: a result that arrives after its document was recorded as a
\* timeout in this run is dropped: the step that takes it from the queue
\* leaves the results list, the log file, the per-document saves and the
\* completed count as they are.
LateResultDropped ==
    [][\A k \in Keys :
        (TimedOutNow(k) /\ ReceivesResult(k)) =>
            /\ log_results' = log_results
            /\ log_files' = log_files
            /\ saving' = saving
            /\ doc_written' = doc_written
            /\ completed' = completed
            /\ appended' = appended
            /\ save_lock' = save_lock]_vars

\* Document 1 has its timeout entry, the worker has since finished it and
\* the message it posted has been taken from the queue; nothing was
\* written for the document and the loop is still collecting.
LateResultDroppedWitness ==
    /\ prun = 1
    /\ ppc \in {"check", "get"}
    /\ TimedOutNow(1)
    /\ EntriesFor(log_results, 1) = 1
    /\ \A w \in 0..(MaxWorkers - 1) : worker_task[w].key # 1
    /\ \A i \in 1..Len(task_q) : task_q[i] = PoolShutdown \/ task_q[i].key # 1
    /\ \A i \in 1..Len(result_q) : result_q[i].key # 1
    /\ 1 \notin doc_written
    /\ saving[1] = "none"
    /\ completed = 1

\* ======================================================================
\* Synthetic timeouts in the results file
\* ======================================================================
\* main appends the entry of the current document.
Records == pc = "score" /\ pc' = "save" /\ Len(results') = Len(results) + 1

\* C25: a timeout synthesized for an engine is in the entry of the
\* document, on that engine's witness, as the error text 'timeout'. When
\* the entry is appended, each of Docling, Vision and Tesseract that was
\* given a synthetic timeout for this document carries it in the entry.
TimeoutRecorded ==
    [][Records =>
        LET e == results'[Len(results')]
        IN  /\ docling_result.error = "timeout" =>
                    e.witnesses.docling.error = "timeout"
            /\ vision_result.error = "timeout" =>
                    e.witnesses.vision.error = "timeout"
            /\ witnesses.tesseract.error = "timeout" =>
                    e.witnesses.tesseract.error = "timeout"]_vars

\* ======================================================================
\* Text in the results file
\* ======================================================================
\* The keys of an extractor result that hold extracted text.
TextBearing == {"text", "page_texts", "layout_elements"}

\* The text-bearing keys a slimmed witness still holds text under.
InlinedText(s) == { f \in DOMAIN s \cap TextBearing : s[f] # NoPages }

\* C26: no entry of the results file holds extracted text: on every
\* witness of every entry, in memory and on disk, no text-bearing key of
\* the extraction result is left with text under it.
NoInlinedText ==
    /\ \A i \in 1..Len(results) : \A n \in Engines :
            InlinedText(results[i].witnesses[n]) = {}
    /\ (files[output_path].exists /\ WellFormed(files[output_path].data)) =>
            LET rs == Parse(files[output_path].data)
            IN  \A i \in 1..Len(rs) : \A n \in Engines :
                    InlinedText(rs[i].witnesses[n]) = {}

\* ======================================================================
\* The pages Vision samples
\* ======================================================================
\* C27: the Vision run the dispatcher starts for a document samples at
\* most n_pages pages, and the first and the last page of the document
\* are always among them.
SampleHasFirstAndLast ==
    vx_pc = "put" =>
        /\ Cardinality(vx_indices) <= vx_n_pages
        /\ DOMAIN vx_page_texts = vx_indices
        /\ 0 \in vx_indices
        /\ (vx_total - 1) \in vx_indices

\* ======================================================================
\* Termination and result of run_phase1_parallel
\* ======================================================================
\* Main's side of a step taken during phase 1.
Phase1Locals == <<pc, docling_done, docling_result, vision_done, vision_result>>

\* What the primary side of phase 1 can hold for document k.
PrimaryOutcomes(k) ==
    DoclingOutputs(k) \cup {_exc_error("error", k), _timeout_error(k)}

\* What the secondary side of phase 1 can hold for document k.
SecondaryOutcomes(k) ==
    VisionOutputs(k)
        \cup {_exc_error("error", k), _timeout_error(k),
              _exc_error("process exited without result", k)}

\* C28: run_phase1_parallel ends at the first poll at or after the
\* deadline at the latest, and returns one result for Docling and, when
\* Vision is available, one for Vision, each the engine's own result or
\* error or a synthetic timeout. A poll is always possible, the poll
\* taken once the deadline has passed leaves the loop, and on return
\* both sides are done with a result of the current document, a timeout
\* only if the deadline was reached.
Phase1Returns ==
    /\ [](/\ pc = "phase1" => (elapsed <= timeout /\ ENABLED Poll)
          /\ pc = "gate" =>
                /\ docling_done /\ vision_done
                /\ docling_result \in PrimaryOutcomes(idx)
                /\ vision_available => vision_result \in SecondaryOutcomes(idx)
                /\ ~vision_available => vision_result = None
                /\ vision_proc # "alive"
                /\ (docling_result.error = "timeout"
                        \/ vision_result.error = "timeout") => elapsed >= timeout)
    /\ [][(pc = "phase1" /\ elapsed >= timeout /\ Phase1Locals' # Phase1Locals)
            => pc' = "gate"]_vars

\* Phase 1 has returned at the deadline with Docling's own result and a
\* synthetic timeout for Vision.
Phase1ReturnsWitness ==
    /\ pc = "gate"
    /\ elapsed = timeout
    /\ vision_available
    /\ docling_result.text # <<>>
    /\ docling_result.error = ""
    /\ vision_result = _timeout_error(idx)

\* ======================================================================
\* --force
\* ======================================================================
\* C29: with --force a document already marked ok is extracted again,
\* and the result the worker reports for it is recorded and counted:
\* the step that takes the message counts the document as completed and
\* either appends its entry or hands it to a save thread.
ForceRecordsFresh ==
    [][\A k \in Keys :
        (force /\ k \in done /\ ReceivesResult(k) /\ ~TimedOutNow(k)) =>
            /\ completed' = completed + 1
            /\ (k \in appended' \/ saving'[k] = "queued")]_vars

\* ======================================================================
\* The batch after a timeout
\* ======================================================================
\* C30: after a document has timed out the batch goes on and the run
\* finishes, even if the extraction that timed out never returns: from
\* any point of the first invocation at which a document has its timeout
\* entry, main eventually reaches the end of the collection loop.
BatchFinishesAfterTimeout ==
    (prun = 1 /\ \E k \in Keys : TimedOutNow(k))
        ~> (prun > 1 \/ ppc \in {"drain", "join", "done"})

\* ======================================================================
\* Termination of the collection loop
\* ======================================================================
\* The worker's 'ok' or 'err' for document k has been received: its task
\* has left the queue, no worker is on it and no message of it is left.
ResultReceived(k) ==
    /\ k \in enqueued
    /\ \A i \in 1..Len(task_q) : task_q[i] = PoolShutdown \/ task_q[i].key # k
    /\ \A w \in 0..(MaxWorkers - 1) : worker_task[w].key # k
    /\ \A i \in 1..Len(result_q) : result_q[i].key # k

\* C31: the collection loop ends. While the loop is running, once every
\* candidate has had its terminal message received or has been timed
\* out, completed equals total, whatever the results log held when the
\* run began.
CollectionLoopExits ==
    (ppc \in {"check", "get"}
        /\ \A k \in enqueued : ResultReceived(k) \/ TimedOutNow(k))
    => completed = Len(candidates)

\* ======================================================================
\* The messages of a pool worker
\* ======================================================================
\* A step puts one message on result_q.
Emits == Len(result_q') = Len(result_q) + 1

Emitted == result_q'[Len(result_q')]

\* C32: a pool worker says 'ready' or 'init_err' once, at the end of its
\* initialisation; for every task it takes it says 'started' and later
\* one of 'ok' and 'err', each with the doc_id and key of that task; a
\* stopped worker says nothing. Every message put on result_q is one of
\* these: 'ready'/'init_err' by a worker leaving its initialisation,
\* 'started' by an idle worker taking the head of task_q, 'ok'/'err' by a
\* busy worker about the task it holds; and a worker takes a task only
\* with a 'started'.
WorkerProtocol ==
    [][/\ Emits =>
            LET e == Emitted
                w == e.wid
            IN  /\ workers[w] \in {"init", "idle", "busy"}
                /\ workers[w] = "init" =>
                        /\ e.status \in {"ready", "init_err"}
                        /\ workers'[w] \in {"idle", "failed"}
                        /\ (e.status = "ready") = (workers'[w] = "idle")
                /\ workers[w] = "idle" =>
                        /\ e.status = "started"
                        /\ task_q # <<>> /\ Head(task_q) # PoolShutdown
                        /\ e.doc_id = Head(task_q).doc_id
                        /\ e.key = Head(task_q).key
                        /\ workers'[w] = "busy"
                        /\ worker_task'[w] = Head(task_q)
                        /\ task_q' = Tail(task_q)
                /\ workers[w] = "busy" =>
                        /\ e.status \in {"ok", "err"}
                        /\ e.doc_id = worker_task[w].doc_id
                        /\ e.key = worker_task[w].key
                        /\ workers'[w] = "idle"
       /\ \A w \in 0..(MaxWorkers - 1) :
            /\ (workers[w] # "busy" /\ workers'[w] = "busy") =>
                    (Emits /\ Emitted.status = "started" /\ Emitted.wid = w)
            /\ (workers[w] = "init" /\ workers'[w] \notin {"init", "none"}) =>
                    (Emits /\ Emitted.wid = w)
            /\ (workers[w] = "busy" /\ workers'[w] = "idle") =>
                    (Emits /\ Emitted.wid = w)]_vars

\* Worker 0, alone in the pool, has said 'started' and a terminal message
\* for document 1 and 'started' for document 2, in that order.
WorkerProtocolWitness ==
    /\ n_workers = 1
    /\ Len(result_q) = 3
    /\ result_q[1].status = "started" /\ result_q[1].key = 1
    /\ result_q[2].status \in {"ok", "err"} /\ result_q[2].key = 1
    /\ result_q[3].status = "started" /\ result_q[3].key = 2
    /\ \A i \in 1..3 : result_q[i].wid = 0 /\ result_q[i].doc_id = result_q[i].key - 1
    /\ workers[0] = "busy"

\* ======================================================================
\* Start-up of the persistent worker
\* ======================================================================
\* C33: start_docling_worker hands back the worker only on 'ready'; on
\* 'init_err', or when the deadline passes with nothing received, the
\* worker process is terminated and main returns: nothing was dispatched
\* or written before, and nothing is dispatched or written until the next
\* run starts.
StartupOrNothing ==
    /\ [](pc \in {"start", "startup"} =>
            /\ dispatched = <<>>
            /\ written = {}
            /\ docling_task_q = <<>>
            /\ docling_task = NoTask)
    /\ [][/\ (pc = "startup" /\ pc' = "resume") =>
                /\ docling_result_q # <<>>
                /\ Head(docling_result_q).status = "ready"
                /\ docling_proc' = "idle"
          /\ (pc = "startup" /\ pc' # "startup") =>
                pc' \in {"resume", "done"}
          /\ (pc = "startup" /\ pc' = "done") =>
                /\ \/ docling_result_q = <<>>
                   \/ Head(docling_result_q).status = "init_err"
                /\ docling_proc' = "exited"
                /\ dispatched' = <<>>
                /\ written' = {}
                /\ UNCHANGED <<docling_task_q, disk, ledger>>
          /\ pc = "done" =>
                /\ pc' \in {"done", "start"}
                /\ UNCHANGED <<dispatched, written, disk, docling_task_q>>
                   \/ (pc' = "start" /\ UNCHANGED disk)]_vars

\* The first run ended in start-up without a 'ready': no document was
\* looked at and the worker process is gone.
StartupOrNothingWitness ==
    /\ run = 1
    /\ pc = "done"
    /\ docling_proc = "exited"
    /\ idx = 1
    /\ docling_result_q = <<>>
    /\ docling_task_q = <<>>
    /\ dispatched = <<>>

\* ======================================================================
\* The lock file
\* ======================================================================
\* C34: at most one invocation of 05_extract_embedded.py is past the lock
\* check at any time.
OneRunPastLock ==
    Cardinality({ r \in Invocations : lock_pc[r] = "main" }) <= 1

\* ======================================================================
\* The private queue of a child process
\* ======================================================================
\* C35: when the supervisor returns for a child that put its result
\* before the deadline, it returns that result, and neither the timeout
\* error nor 'process exited without result'.
PutResultReturned ==
    (tp_pc = "returned" /\ tp_put_at # -1 /\ tp_put_at < timeout) =>
        tp_return \notin {"timeout", "exited without result"}

\* ======================================================================
\* The results log at the end of a first run
\* ======================================================================
\* C36: when a run of 05_extract_embedded.py that found no results log
\* has gone through its collection loop, the wait for the background
\* saves and the shutdown of the workers, the log on disk holds exactly
\* one entry for every candidate, with one of the four statuses.
FirstRunLogComplete ==
    (prun = 1 /\ ppc = "done" /\ candidates # <<>>) =>
        /\ log_files[res_path].exists
        /\ \A i \in 1..Len(candidates) :
                EntriesFor(PriorLog, candidates[i]) = 1
        /\ \A j \in 1..Len(PriorLog) :
                /\ PriorLog[j].status \in
                        {"ok", "save_error", "error", "timeout"}
                /\ \E i \in 1..Len(candidates) :
                        candidates[i] = PriorLog[j].key

\* A first run over two candidates is through: one document was saved in
\* the background, the other one timed out.
FirstRunLogCompleteWitness ==
    /\ prun = 1
    /\ ppc = "done"
    /\ Len(candidates) = NDocs
    /\ Len(PriorLog) = NDocs
    /\ \E i, j \in 1..Len(PriorLog) :
        /\ PriorLog[i].status \in {"ok", "save_error"}
        /\ PriorLog[j].status = "timeout"

\* ======================================================================
\* One child process at a time
\* ======================================================================
\* C37: the Vision process and the Tesseract process are never alive
\* together; a Vision process is started only when neither the previous
\* Vision process nor a Tesseract process is alive, and the Tesseract
\* process only after phase 1 has returned, with both sides done and the
\* Vision process gone. Each process is alive only inside the call that
\* supervises it.
OneChildAtATime ==
    /\ [](~(vision_proc = "alive" /\ tess_proc = "alive"))
    /\ [](vision_proc = "alive" => pc \in {"phase1", "crashed"})
    /\ [](tess_proc = "alive" => pc \in {"tess", "crashed"})
    /\ [][/\ (pc = "loop" /\ pc' = "phase1") =>
                /\ vision_proc # "alive"
                /\ tess_proc # "alive"
          /\ (vision_proc # "alive" /\ vision_proc' = "alive") =>
                (pc = "loop" /\ pc' = "phase1")
          /\ (tess_proc # "alive" /\ tess_proc' = "alive") =>
                /\ pc = "gate"
                /\ docling_done /\ vision_done
                /\ vision_proc # "alive"
          /\ (pc = "tess" /\ pc' # "tess") => tess_proc' # "alive"]_vars

\* The Tesseract process of the second document runs; its Vision process
\* has exited.
OneChildAtATimeWitness ==
    /\ run = 1
    /\ idx = 2
    /\ pc = "tess"
    /\ tess_proc = "alive"
    /\ vision_proc = "exited"

\* ======================================================================
\* Sentinels behind the tasks
\* ======================================================================
\* A task of document k waits on task_q.
Waiting(k) == \E i \in 1..Len(task_q) : task_q[i] # PoolShutdown /\ task_q[i].key = k

\* C38: on task_q no document task stands behind a sentinel, so a worker
\* that takes a sentinel leaves no task behind; a sentinel is taken by an
\* idle worker, which stops and takes nothing more; main gets to its
\* shutdown only with every task taken; and with workers that return from
\* their extractions every task put on the queue is taken by a worker.
SentinelsAfterTasks ==
    /\ [](\A i, j \in 1..Len(task_q) :
            (i < j /\ task_q[i] = PoolShutdown) => task_q[j] = PoolShutdown)
    /\ [](ppc \in {"drain", "join"} => \A k \in Keys : ~Waiting(k))
    /\ [][/\ (task_q # <<>> /\ Head(task_q) = PoolShutdown
                /\ task_q' = Tail(task_q) /\ UNCHANGED <<ppc, prun>>) =>
                /\ \A k \in Keys : ~Waiting(k)
                /\ \E w \in 0..(MaxWorkers - 1) :
                        workers[w] = "idle" /\ workers'[w] = "stopped"
          /\ \A w \in 0..(MaxWorkers - 1) :
                workers[w] = "stopped" => workers'[w] \in {"stopped", "none"}
          /\ \A k \in Keys :
                (Waiting(k) /\ ~Waiting(k)') =>
                    \E w \in 0..(MaxWorkers - 1) :
                        worker_task'[w].key = k /\ workers'[w] = "busy"]_vars
    /\ \A k \in Keys : Waiting(k) ~> ~Waiting(k)

\* One worker has taken the task of document 1 and is back, the other has
\* taken the task of document 2, and the first sentinel has been taken.
SentinelsAfterTasksWitness ==
    /\ n_workers = 2
    /\ enqueued = Keys
    /\ task_q = <<PoolShutdown>>
    /\ \E w \in 0..(MaxWorkers - 1) : workers[w] = "stopped"
    /\ \E w \in 0..(MaxWorkers - 1) : workers[w] = "busy"

\* ======================================================================
\* _spread_indices
\* ======================================================================
\* C39: for every total >= 1 and n >= 1, _spread_indices(total, n) returns
\* a list that is sorted, without repetition, within [0, total - 1], of
\* length at most n, and holds both 0 and total - 1 (all pages when
\* total <= n).
SpreadReturnsFirstAndLast ==
    sp_pc # "call" =>
        /\ sp_pc = "returned"
        /\ \A i, j \in 1..Len(sp_indices) : i < j => sp_indices[i] < sp_indices[j]
        /\ \A i \in 1..Len(sp_indices) : sp_indices[i] \in 0..(sp_total - 1)
        /\ Len(sp_indices) <= sp_n
        /\ \E i \in 1..Len(sp_indices) : sp_indices[i] = 0
        /\ \E i \in 1..Len(sp_indices) : sp_indices[i] = sp_total - 1
        /\ sp_total <= sp_n => Len(sp_indices) = sp_total
====
